---- MODULE Spec2Model ----
(***************************************************************************)
(* Verification model of the recruitment backend's core:                   *)
(*   - app/agents/candidate_ranker.py  (rank_candidates)                   *)
(*   - app/agents/cv_evaluator.py      (_compute_grade, evaluate_candidate)*)
(*   - app/utils/scheduler.py          (pre-close scheduler and its tasks) *)
(* Each part has its own specification (SpecRank, SpecGrade, SpecEval,     *)
(* SpecPersona, SpecSched, SpecTasks, SpecStore, SpecLife, SpecAuto,       *)
(* SpecPool, SpecInstances); the variables of the other parts stay at      *)
(* their idle values.                                                      *)
(***************************************************************************)
EXTENDS Integers, Sequences, FiniteSets, TLC

VARIABLES
    \* ---- candidate_ranker.rank_candidates ----
    evaluations,      \* argument: list of evaluation dicts
    top_n,            \* argument: requested shortlist size
    rank_pc,          \* "idle" | "call" | "return"
    ranking,          \* the dict rank_candidates returned
    \* ---- _compute_grade (both copies) ----
    grade_pc,         \* "idle" | "call" | "return"
    score,            \* argument of _compute_grade
    evaluator_grade,  \* cv_evaluator._compute_grade(score)
    scheduler_grade,  \* scheduler._compute_grade(score)
    \* ---- cv_evaluator.evaluate_candidate ----
    cv,               \* argument: the parsed resume
    personas,         \* argument: list of persona dicts
    llm_outcomes,     \* what the text-generation call does for each persona
    eval_pc,          \* "idle" | "call" | "return"
    evaluation,       \* what evaluate_candidate returned, or that it raised
    \* ---- cv_evaluator.evaluate_candidate_against_persona (cv is shared) ----
    persona_arg,      \* argument: one persona dict
    llm_outcome,      \* what get_llm() and llm.invoke() do during the call
    persona_pc,       \* "idle" | "call" | "return"
    persona_result,   \* what the call returned, or that it raised
    \* ---- utils.scheduler and the tables its tasks use ----
    now,              \* datetime.now(timezone.utc), in seconds
    jobstore,         \* the tasks in scheduler's MemoryJobStore
    job_status,       \* job_requests.status per job id (NoRow: no such row)
    job_end_date,     \* job_requests.end_date per job id (NoEndDate: NULL)
    process,          \* "up" while the application process runs, else "down"
    candidates,       \* rows of the candidates table
    candidate_evaluations,  \* rows of the candidate_evaluations table
    notifications,    \* rows of the notifications table, in insertion order
    last_schedule,    \* history: per job, the last schedule_pre_close_tasks call
    calls,            \* history: number of schedule_pre_close_tasks calls so far
    last_op,          \* history: the operation that led to this state
    running           \* per worker thread, the task run it is executing

rank_vars == <<evaluations, top_n, rank_pc, ranking>>
grade_vars == <<grade_pc, score, evaluator_grade, scheduler_grade>>
eval_vars == <<cv, personas, llm_outcomes, eval_pc, evaluation,
               persona_arg, llm_outcome, persona_pc, persona_result>>
sched_vars == <<now, jobstore, job_status, job_end_date, process, candidates,
                candidate_evaluations, notifications, last_schedule, calls, last_op,
                running>>
vars == <<rank_vars, grade_vars, eval_vars, sched_vars>>

\* A dict key that is not present (dict.get falls back to its default).
NoKey == "<absent>"

Max2(a, b) == IF a >= b THEN a ELSE b
Min2(a, b) == IF a <= b THEN a ELSE b

Range(s) == {s[i] : i \in 1..Len(s)}

RECURSIVE SeqsUpTo(_, _)
\* All sequences over S of length 0..n.
SeqsUpTo(S, n) ==
    IF n = 0 THEN {<<>>}
    ELSE LET shorter == SeqsUpTo(S, n - 1)
         IN shorter \cup {Append(s, x) : s \in {t \in shorter : Len(t) = n - 1}, x \in S}

(***************************************************************************)
(* _compute_grade: the ladder, once per copy.                              *)
(***************************************************************************)
Evaluator_compute_grade(s) ==
    IF s >= 95 THEN "A+"
    ELSE IF s >= 90 THEN "A"
    ELSE IF s >= 85 THEN "A-"
    ELSE IF s >= 80 THEN "B+"
    ELSE IF s >= 75 THEN "B"
    ELSE IF s >= 70 THEN "B-"
    ELSE IF s >= 65 THEN "C+"
    ELSE IF s >= 60 THEN "C"
    ELSE IF s >= 55 THEN "C-"
    ELSE IF s >= 50 THEN "D"
    ELSE "F"

\* A copy of the ladder whose D threshold drifted.
Scheduler_compute_grade_drift(s) ==
    IF s >= 95 THEN "A+"
    ELSE IF s >= 90 THEN "A"
    ELSE IF s >= 85 THEN "A-"
    ELSE IF s >= 80 THEN "B+"
    ELSE IF s >= 75 THEN "B"
    ELSE IF s >= 70 THEN "B-"
    ELSE IF s >= 65 THEN "C+"
    ELSE IF s >= 60 THEN "C"
    ELSE IF s >= 55 THEN "C-"
    ELSE IF s > 50 THEN "D"
    ELSE "F"

Scheduler_compute_grade(s) ==
    IF s >= 95 THEN "A+"
    ELSE IF s >= 90 THEN "A"
    ELSE IF s >= 85 THEN "A-"
    ELSE IF s >= 80 THEN "B+"
    ELSE IF s >= 75 THEN "B"
    ELSE IF s >= 70 THEN "B-"
    ELSE IF s >= 65 THEN "C+"
    ELSE IF s >= 60 THEN "C"
    ELSE IF s >= 55 THEN "C-"
    ELSE IF s >= 50 THEN "D"
    ELSE "F"

(***************************************************************************)
(* rank_candidates                                                         *)
(***************************************************************************)
\* candidate.get("best_fit_persona", "unknown")
PersonaOf(candidate) ==
    IF candidate.best_fit_persona = NoKey THEN "unknown"
    ELSE candidate.best_fit_persona

\* candidate.get("best_fit_persona_name", persona)
PersonaNameOf(candidate) ==
    IF candidate.best_fit_persona_name = NoKey THEN PersonaOf(candidate)
    ELSE candidate.best_fit_persona_name

\* key=lambda x: x.get("overall_score", 0).  Every evaluation handed to the
\* ranker carries overall_score (line 56 reads it without a default).
SortKey(candidate) == candidate.overall_score

\* One insertion of a stable descending sort: x goes behind every element
\* whose key is >= its own.
RECURSIVE InsertDesc(_, _)
InsertDesc(sorted, x) ==
    IF sorted = <<>> THEN <<x>>
    ELSE IF SortKey(Head(sorted)) >= SortKey(x)
         THEN <<Head(sorted)>> \o InsertDesc(Tail(sorted), x)
         ELSE <<x>> \o sorted

\* As InsertDesc, but x goes in front of its equals (an unstable sort).
RECURSIVE InsertDescUnstable(_, _)
InsertDescUnstable(sorted, x) ==
    IF sorted = <<>> THEN <<x>>
    ELSE IF SortKey(Head(sorted)) > SortKey(x)
         THEN <<Head(sorted)>> \o InsertDescUnstable(Tail(sorted), x)
         ELSE <<x>> \o sorted

RECURSIVE SortFrom(_, _, _)
SortFrom(evals, i, acc) ==
    IF i > Len(evals) THEN acc
    ELSE SortFrom(evals, i + 1, InsertDesc(acc, evals[i]))

RECURSIVE SortFromUnstable(_, _, _)
SortFromUnstable(evals, i, acc) ==
    IF i > Len(evals) THEN acc
    ELSE SortFromUnstable(evals, i + 1, InsertDescUnstable(acc, evals[i]))

SortedCandidatesUnstable(evals) == SortFromUnstable(evals, 1, <<>>)

\* sorted(evaluations, key=..., reverse=True): stable, descending.
SortedCandidates(evals) == SortFrom(evals, 1, <<>>)

\* max_per_persona = max(4, top_n // 2)
MaxPerPersona(n) == Max2(4, n \div 2)

OverRepresentedOffByOne(count, cap) == count > cap

\* if persona_count[persona] >= max_per_persona: continue
OverRepresented(count, cap) == count >= cap

NextRankZeroBased(shortlisted) == Len(shortlisted)

\* "rank": len(shortlisted) + 1
NextRank(shortlisted) == Len(shortlisted) + 1

ShortlistFullOffByOne(shortlisted, n) == Len(shortlisted) > n

\* if len(shortlisted) >= top_n: break
ShortlistFull(shortlisted, n) == Len(shortlisted) >= n

\* The dict appended to shortlisted for one candidate.
ShortlistEntry(candidate, shortlisted) ==
    [rank         |-> NextRank(shortlisted),
     candidate_id |-> candidate.candidate_id,
     persona      |-> PersonaOf(candidate),
     persona_name |-> PersonaNameOf(candidate),
     score        |-> candidate.overall_score,
     grade        |-> candidate.overall_grade,
     why          |-> candidate.summary,
     persona_results |-> candidate.persona_results]

\* persona_count.get(persona): the number of shortlisted entries of persona.
PersonaCount(shortlisted, persona) ==
    Cardinality({k \in 1..Len(shortlisted) : shortlisted[k].persona = persona})

\* The for-loop over sorted_candidates, from position i on.
RECURSIVE RankLoop(_, _, _, _)
RankLoop(sorted, i, shortlisted, n) ==
    IF i > Len(sorted) THEN shortlisted
    ELSE LET candidate == sorted[i]
             persona == PersonaOf(candidate)
         IN IF OverRepresented(PersonaCount(shortlisted, persona), MaxPerPersona(n))
            THEN RankLoop(sorted, i + 1, shortlisted, n)
            ELSE LET longer == Append(shortlisted, ShortlistEntry(candidate, shortlisted))
                 IN IF ShortlistFull(longer, n) THEN longer
                    ELSE RankLoop(sorted, i + 1, longer, n)

\* distribution[name] = distribution.get(name, 0) + 1 over the shortlist.
Distribution(shortlisted) ==
    [name \in {shortlisted[k].persona_name : k \in 1..Len(shortlisted)} |->
        Cardinality({k \in 1..Len(shortlisted) : shortlisted[k].persona_name = name})]

EmptyRankingNoNotes ==
    [shortlist |-> <<>>, total_evaluated |-> 0,
     persona_distribution |-> <<>>, notes |-> <<>>]

\* The early return for "not evaluations".
EmptyRanking ==
    [shortlist |-> <<>>, total_evaluated |-> 0,
     persona_distribution |-> <<>>,
     notes |-> <<"No candidates were evaluated.">>]

\* rank_candidates(evaluations, top_n); notes is the f-string's pieces.
RankCandidates(evals, n) ==
    IF evals = <<>> THEN EmptyRanking
    ELSE LET shortlisted == RankLoop(SortedCandidates(evals), 1, <<>>, n)
             distribution == Distribution(shortlisted)
         IN [shortlist |-> shortlisted,
             total_evaluated |-> Len(evals),
             persona_distribution |-> distribution,
             notes |-> <<"Top ", Len(shortlisted), " candidates selected from ",
                         Len(evals), " evaluated. Balanced across ",
                         Cardinality(DOMAIN distribution), " persona type(s).">>]

(***************************************************************************)
(* cv_evaluator: evaluate_candidate_against_persona and evaluate_candidate *)
(***************************************************************************)
\* A dict is a record with a field "keys", the set of the keys it holds; a
\* field whose key is not in "keys" holds a filler value that is never read.

\* What evaluate_candidate_against_persona returns when json.loads raised
\* JSONDecodeError.
ParseErrorFallback(persona_id) ==
    [keys        |-> {"persona_id", "score", "grade", "strengths", "gaps", "explanation"},
     persona_id  |-> persona_id,
     score       |-> 0,
     grade       |-> "F",
     strengths   |-> <<>>,
     gaps        |-> <<"Unable to evaluate - LLM response parsing failed">>,
     explanation |-> "Evaluation could not be completed due to a parsing error."]

\* What it returns when anything else raised inside the try block;
\* explanation is str(e).
ExceptionFallback(persona_id, message) ==
    [keys        |-> {"persona_id", "score", "grade", "strengths", "gaps", "explanation"},
     persona_id  |-> persona_id,
     score       |-> 0,
     grade       |-> "F",
     strengths   |-> <<>>,
     gaps        |-> <<"Evaluation failed due to an unexpected error">>,
     explanation |-> message]

\* persona.get("persona_id", "P0")
RequestedPersonaId(persona) ==
    IF "persona_id" \in persona.keys THEN persona.persona_id ELSE "P0"

\* A dict that was never built (the call that would build it raised).
NoObject ==
    [keys |-> {}, persona_id |-> "", score |-> 0, grade |-> "",
     strengths |-> <<>>, gaps |-> <<>>, explanation |-> ""]

\* What json.loads(content) meets after lines 107-112 stripped the content:
\* a leading Markdown code fence is cut off (with its "json" tag), so the fenced body is
\* parsed; text in front of the fence is left in place and is no JSON.
ContentKind(outcome) ==
    IF outcome.fence = "prose, then fenced json" THEN "non_json" ELSE outcome.kind

\* The function without line 115: the parsed object keeps the persona_id the
\* service wrote.
EvaluateAgainstPersonaEcho(persona, outcome) ==
    LET persona_id == RequestedPersonaId(persona)
    IN IF outcome.kind = "unconstructible"
       THEN [status |-> "raised", error |-> outcome.message, result |-> NoObject]
       ELSE [status |-> "returned", error |-> "", result |->
             CASE outcome.kind = "raises" -> ExceptionFallback(persona_id, outcome.message)
               [] ContentKind(outcome) = "object" -> outcome.object
               [] ContentKind(outcome) = "non_object" ->
                    ExceptionFallback(persona_id,
                                      "list indices must be integers or slices, not str")
               [] ContentKind(outcome) = "non_json" -> ParseErrorFallback(persona_id)]

\* evaluate_candidate_against_persona(cv, persona), given what the
\* text-generation side does: get_llm() raises (line 75, before the try), or
\* llm.invoke raises, or it answers text that parses to a JSON object, to
\* JSON that is no object, or that is no JSON.
EvaluateAgainstPersona(persona, outcome) ==
    LET persona_id == RequestedPersonaId(persona)
    IN IF outcome.kind = "unconstructible"
       THEN [status |-> "raised", error |-> outcome.message, result |-> NoObject]
       ELSE [status |-> "returned", error |-> "", result |->
             CASE outcome.kind = "raises" -> ExceptionFallback(persona_id, outcome.message)
               [] ContentKind(outcome) = "object" ->
                    \* result = json.loads(content); result["persona_id"] = persona_id
                    [outcome.object EXCEPT !.persona_id = persona_id,
                                           !.keys = @ \cup {"persona_id"}]
               [] ContentKind(outcome) = "non_object" ->
                    \* result["persona_id"] = ... raises TypeError on a list
                    ExceptionFallback(persona_id,
                                      "list indices must be integers or slices, not str")
               [] ContentKind(outcome) = "non_json" -> ParseErrorFallback(persona_id)]

\* int(x / y) for y > 0: the quotient truncated toward zero.
TruncDiv(x, y) == IF x >= 0 THEN x \div y ELSE -((-x) \div y)

RECURSIVE SumScores(_, _)
\* sum(scores), from position i on.
SumScores(results, i) ==
    IF i > Len(results) THEN 0 ELSE results[i].score + SumScores(results, i + 1)

\* avg_score = int(sum(scores) / len(scores)) if scores else 0
AvgScore(results) ==
    IF results = <<>> THEN 0 ELSE TruncDiv(SumScores(results, 1), Len(results))

\* best = max(persona_results, key=lambda x: x["score"]): the first maximum.
Best(results) ==
    results[CHOOSE i \in 1..Len(results) :
               /\ \A j \in 1..Len(results) : results[j].score <= results[i].score
               /\ \A j \in 1..(i - 1) : results[j].score < results[i].score]

\* The personas next() reads in the best_fit_persona_name lookup: all up to
\* and including the first one whose persona_id is best's.  A persona without
\* the key ends the scan with KeyError, so the scan stops there as well.
NameScanStop(ps, id) ==
    LET stops == {i \in 1..Len(ps) :
                     \/ "persona_id" \notin ps[i].keys
                     \/ ps[i].persona_id = id}
    IN IF stops = {} THEN 0 ELSE CHOOSE i \in stops : \A j \in stops : i <= j

Raised(error) ==
    [status |-> "raised", error |-> error, candidate_id |-> "",
     persona_results |-> <<>>, overall_score |-> 0, overall_grade |-> "",
     best_fit_persona |-> "", best_fit_persona_name |-> "", summary |-> ""]

\* evaluate_candidate(cv, personas)
EvaluateCandidate(c, ps, outcomes) ==
    LET calls_made == [i \in 1..Len(ps) |-> EvaluateAgainstPersona(ps[i], outcomes[i])]
        persona_results == [i \in 1..Len(ps) |-> calls_made[i].result]
        propagating == {i \in 1..Len(ps) : calls_made[i].status = "raised"}
    IN IF propagating # {}
       THEN Raised(calls_made[CHOOSE i \in propagating :
                                 \A j \in propagating : i <= j].error)   \* line 171
       ELSE IF \E i \in 1..Len(ps) : "score" \notin persona_results[i].keys
       THEN Raised("KeyError: 'score'")                    \* line 175, or 176 in max
       ELSE IF persona_results = <<>>
       THEN Raised("ValueError: max() arg is an empty sequence")   \* line 176
       ELSE LET best == Best(persona_results)
                avg_score == AvgScore(persona_results)
                stop == NameScanStop(ps, best.persona_id)
            IN IF stop # 0 /\ "persona_id" \notin ps[stop].keys
               THEN Raised("KeyError: 'persona_id'")        \* line 187
               ELSE [status |-> "returned",
                     error |-> "",
                     candidate_id |-> IF "candidate_id" \in c.keys
                                      THEN c.candidate_id ELSE "unknown",
                     persona_results |-> persona_results,
                     overall_score |-> avg_score,
                     overall_grade |-> Evaluator_compute_grade(avg_score),
                     best_fit_persona |-> best.persona_id,
                     best_fit_persona_name |->
                         IF stop = 0 THEN best.persona_id
                         ELSE IF "name" \in ps[stop].keys THEN ps[stop].name
                         ELSE best.persona_id,
                     summary |-> IF "explanation" \in best.keys THEN best.explanation
                                 ELSE "No explanation available."]

(***************************************************************************)
(* The values a part's variables hold while another part is being checked. *)
(***************************************************************************)
NoRanking ==
    [shortlist |-> <<>>, total_evaluated |-> 0,
     persona_distribution |-> <<>>, notes |-> <<>>]

RankIdle ==
    /\ evaluations = <<>>
    /\ top_n = 0
    /\ rank_pc = "idle"
    /\ ranking = NoRanking

GradeIdle ==
    /\ grade_pc = "idle"
    /\ score = 0
    /\ evaluator_grade = ""
    /\ scheduler_grade = ""

NoCv == [keys |-> {}, candidate_id |-> ""]

NoPersona == [keys |-> {}, persona_id |-> "", name |-> ""]

NoOutcome == [kind |-> "", fence |-> "", object |-> NoObject, message |-> ""]

NotCalled == [status |-> "", error |-> "", result |-> NoObject]

PersonaIdle ==
    /\ persona_arg = NoPersona
    /\ llm_outcome = NoOutcome
    /\ persona_pc = "idle"
    /\ persona_result = NotCalled

EvalIdle ==
    /\ cv = NoCv
    /\ personas = <<>>
    /\ llm_outcomes = <<>>
    /\ eval_pc = "idle"
    /\ evaluation = Raised("")
    /\ PersonaIdle

\* History entry: which operation ran, for which job, with which injected
\* database fault, and whether it raised to its caller.
Op(name, job_id, fault, raised) ==
    [name |-> name, job_id |-> job_id, fault |-> fault, raised |-> raised]

NoOp == Op("", 0, "none", FALSE)

\* The worker threads that execute fired tasks.
Workers == {1, 2}

\* A worker that executes nothing.
NoRun ==
    [func |-> "", job_id |-> 0, pc |-> "idle", rows |-> {}, todo |-> {}, pending |-> {}]

WorkersIdle == running = [w \in Workers |-> NoRun]

SchedIdle ==
    /\ WorkersIdle
    /\ now = 0
    /\ jobstore = {}
    /\ job_status = <<>>
    /\ job_end_date = <<>>
    /\ process = "up"
    /\ last_op = NoOp
    /\ candidates = {}
    /\ candidate_evaluations = {}
    /\ notifications = <<>>
    /\ last_schedule = <<>>
    /\ calls = 0

(***************************************************************************)
(* Inputs of evaluate_candidate.                                           *)
(***************************************************************************)
MaxPersonas == 2       \* longest persona list

EvalScores == {60, 61, 80}
Explanations == {"Strong match on required skills.", "Partial match with gaps."}

\* The persona dicts a caller may pass: /evaluate takes them from the request
\* body, /full from build_personas (which sets persona_id on each).
PersonaChoices ==
    {[keys |-> {"persona_id", "name"}, persona_id |-> "P1", name |-> "Backend Builder"],
     [keys |-> {"persona_id"}, persona_id |-> "P2", name |-> ""],
     [keys |-> {"name"}, persona_id |-> "", name |-> "Generalist"]}

\* The JSON objects the text-generation service may answer with: score and
\* explanation present or not, persona_id echoed or another one.
LlmObjects ==
    {[keys |-> {"persona_id", "grade", "strengths", "gaps"} \cup ks, persona_id |-> id,
      score |-> sc, grade |-> Evaluator_compute_grade(sc), strengths |-> <<"Strength 1">>,
      gaps |-> <<"Gap 1">>, explanation |-> ex] :
        ks \in {{"score", "explanation"}}, id \in {"P1", "P9"},
        sc \in EvalScores, ex \in Explanations}
    \cup {[keys |-> {"persona_id", "grade", "strengths", "gaps", "score"}, persona_id |-> id,
           score |-> sc, grade |-> Evaluator_compute_grade(sc), strengths |-> <<"Strength 1">>,
           gaps |-> <<>>, explanation |-> ""] :
             id \in {"P1", "P9"}, sc \in EvalScores}
    \cup {[keys |-> {"persona_id", "grade", "explanation"}, persona_id |-> "P1",
           score |-> 0, grade |-> "B", strengths |-> <<>>, gaps |-> <<>>,
           explanation |-> "Partial match with gaps."]}

\* An answer wrapped in a Markdown fence, with and without prose in front.
FencedObject ==
    [keys |-> {"persona_id", "score", "grade", "strengths", "gaps", "explanation"},
     persona_id |-> "P9", score |-> 80, grade |-> "B+", strengths |-> <<"Strength 1">>,
     gaps |-> <<"Gap 1">>, explanation |-> "Strong match on required skills."]

\* What the text-generation side does during one call.
LlmOutcomes ==
    {[kind |-> "object", fence |-> "", object |-> o, message |-> ""] : o \in LlmObjects}
    \cup {[kind |-> "object", fence |-> f, object |-> FencedObject, message |-> ""] :
             f \in {"fenced json", "prose, then fenced json"}}
    \cup {[kind |-> "non_object", fence |-> "", object |-> NoObject, message |-> ""],
          [kind |-> "non_json", fence |-> "", object |-> NoObject, message |-> ""],
          [kind |-> "raises", fence |-> "", object |-> NoObject,
           message |-> "Connection error."],
          [kind |-> "unconstructible", fence |-> "", object |-> NoObject,
           message |-> "GroqError: The api_key client option must be set"]}

\* Every list of up to n personas, each with what the service does for it.
EvalInputs(n) == SeqsUpTo(PersonaChoices \X LlmOutcomes, n)

InitEval ==
    /\ cv = [keys |-> {"candidate_id"}, candidate_id |-> "resume-1.pdf"]
    /\ \E input \in EvalInputs(MaxPersonas) :
          /\ personas = [i \in 1..Len(input) |-> input[i][1]]
          /\ llm_outcomes = [i \in 1..Len(input) |-> input[i][2]]
    /\ eval_pc = "call"
    /\ evaluation = Raised("")
    /\ PersonaIdle
    /\ RankIdle
    /\ GradeIdle
    /\ SchedIdle

\* One call of evaluate_candidate(cv, personas).
Evaluate ==
    /\ eval_pc = "call"
    /\ evaluation' = EvaluateCandidate(cv, personas, llm_outcomes)
    /\ eval_pc' = "return"
    /\ UNCHANGED <<cv, personas, llm_outcomes, persona_arg, llm_outcome, persona_pc,
                   persona_result, rank_vars, grade_vars, sched_vars>>

SpecEval == InitEval /\ [][Evaluate]_vars

\* One call of evaluate_candidate_against_persona(cv, persona).
InitPersona ==
    /\ cv \in {[keys |-> {"candidate_id"}, candidate_id |-> "resume-1.pdf"], NoCv}
    /\ persona_arg \in PersonaChoices
    /\ llm_outcome \in LlmOutcomes
    /\ persona_pc = "call"
    /\ persona_result = NotCalled
    /\ personas = <<>>
    /\ llm_outcomes = <<>>
    /\ eval_pc = "idle"
    /\ evaluation = Raised("")
    /\ RankIdle
    /\ GradeIdle
    /\ SchedIdle

EvaluateOnePersona ==
    /\ persona_pc = "call"
    /\ persona_result' = EvaluateAgainstPersona(persona_arg, llm_outcome)
    /\ persona_pc' = "return"
    /\ UNCHANGED <<cv, persona_arg, llm_outcome, personas, llm_outcomes, eval_pc,
                   evaluation, rank_vars, grade_vars, sched_vars>>

SpecPersona == InitPersona /\ [][EvaluateOnePersona]_vars

(***************************************************************************)
(* Inputs of rank_candidates.                                              *)
(***************************************************************************)
MaxEvals == 6          \* longest exhaustively enumerated evaluation list
MaxTopN == 5           \* largest top_n paired with the enumerated lists
MaxScenarioCount == 6  \* most candidates per persona in the scenario lists

RankScores == {60, 85}
RankPersonas == {"P1", NoKey}
ScenarioTopNs == {10, 11}

PersonaDisplayName(p) ==
    CASE p = "P1" -> "Backend Builder"
      [] p = "P2" -> "Data Specialist"
      [] p = "P3" -> "Team Lead"
      [] OTHER -> NoKey

\* An evaluation dict as evaluate_candidate produces it (cv_evaluator.py
\* lines 179-191); candidate_id is the position in the input list.
Evaluation(id, s, p) ==
    [candidate_id          |-> id,
     overall_score         |-> s,
     overall_grade         |-> Evaluator_compute_grade(s),
     best_fit_persona      |-> p,
     best_fit_persona_name |-> PersonaDisplayName(p),
     summary               |-> "fit analysis",
     persona_results       |-> <<>>]

EvalsOf(pairs) == [i \in 1..Len(pairs) |-> Evaluation(i, pairs[i][1], pairs[i][2])]

\* Every list of up to n evaluations over RankScores x RankPersonas.
EnumeratedEvals(n) == {EvalsOf(pairs) : pairs \in SeqsUpTo(RankScores \X RankPersonas, n)}

\* a candidates of P1, then b of P2, then c of P3; the k-th candidate of each
\* persona scores 100 - 5k, so that scores tie across personas.
ScenarioEvals(a, b, c) ==
    [i \in 1..(a + b + c) |->
        IF i <= a THEN Evaluation(i, 100 - 5 * i, "P1")
        ELSE IF i <= a + b THEN Evaluation(i, 100 - 5 * (i - a), "P2")
        ELSE Evaluation(i, 100 - 5 * (i - a - b), "P3")]

\* The (evaluations, top_n) pairs rank_candidates is called with.
RankInputs(maxEvals, maxTopN, maxCount) ==
    (EnumeratedEvals(maxEvals) \X (-1..maxTopN))
    \cup ({ScenarioEvals(a, b, c) : a, b, c \in 0..maxCount} \X ScenarioTopNs)

InitRank ==
    /\ \E input \in RankInputs(MaxEvals, MaxTopN, MaxScenarioCount) :
          /\ evaluations = input[1]
          /\ top_n = input[2]
    /\ rank_pc = "call"
    /\ ranking = NoRanking
    /\ GradeIdle
    /\ EvalIdle
    /\ SchedIdle

\* One call of rank_candidates(evaluations, top_n).
Rank ==
    /\ rank_pc = "call"
    /\ ranking' = RankCandidates(evaluations, top_n)
    /\ rank_pc' = "return"
    /\ UNCHANGED <<evaluations, top_n, grade_vars, eval_vars, sched_vars>>

SpecRank == InitRank /\ [][Rank]_vars

(***************************************************************************)
(* _compute_grade on every score of the 0..100 scale.                      *)
(***************************************************************************)
MinScore == 0
MaxScore == 100

InitGrade ==
    /\ score \in MinScore..MaxScore
    /\ grade_pc = "call"
    /\ evaluator_grade = ""
    /\ scheduler_grade = ""
    /\ RankIdle
    /\ EvalIdle
    /\ SchedIdle

\* One call of each copy of _compute_grade(score).
ComputeGrade ==
    /\ grade_pc = "call"
    /\ evaluator_grade' = Evaluator_compute_grade(score)
    /\ scheduler_grade' = Scheduler_compute_grade(score)
    /\ grade_pc' = "return"
    /\ UNCHANGED <<score, rank_vars, eval_vars, sched_vars>>

SpecGrade == InitGrade /\ [][ComputeGrade]_vars

(***************************************************************************)
(* utils.scheduler: the job store                                          *)
(***************************************************************************)
Jobs == {7, 9}

Day == 24 * 60 * 60
Hour == 60 * 60
TwoDays == 2 * Day     \* timedelta(days=2)
ClampDelay == 10       \* timedelta(seconds=10)
EvalOffset == 5        \* timedelta(seconds=5)

\* A job id with no row in job_requests.
NoRow == "no row"

\* end_date is nullable: a job without one.
NoEndDate == [null |-> TRUE, instant |-> 0]

\* A stored end date, as seconds on the model's clock.
EndDate(instant) == [null |-> FALSE, instant |-> instant]

\* id=f"reminder-{job_id}"
ReminderId(job_id) == <<"reminder-", job_id>>

AutoEvalIdShared(job_id) == <<"auto-eval-", 0>>

\* id=f"auto-eval-{job_id}"
AutoEvalId(job_id) == <<"auto-eval-", job_id>>

\* scheduler.remove_job(id) inside try/except: JobLookupError for an id that
\* is not in the store is swallowed.
RemoveJob(store, id) == {t \in store : t.id # id}

\* scheduler.add_job(func, "date", run_date=..., args=[job_id], id=...,
\* replace_existing=True)
AddJob(store, task) == {t \in store : t.id # task.id} \cup {task}

\* scheduler.remove_job(id) raises JobLookupError when the id is not stored.
JobLookupError(store, id) == \A t \in store : t.id # id

Propagate(raises) == raises

\* try: ... except Exception: pass
Swallow(raises) == FALSE

\* Only the first prefix of the loop is handled.
CancelledStoreReminderOnly(store, job_id) == RemoveJob(store, ReminderId(job_id))

\* cancel_job_schedule(job_id) on the store.
CancelledStore(store, job_id) ==
    RemoveJob(RemoveJob(store, ReminderId(job_id)), AutoEvalId(job_id))

\* Whether cancel_job_schedule(job_id) raises to its caller.
CancelRaises(store, job_id) ==
    \/ Swallow(JobLookupError(store, ReminderId(job_id)))
    \/ Swallow(JobLookupError(store, AutoEvalId(job_id)))

\* end_date.replace(tzinfo=timezone.utc) for a naive datetime: the same
\* wall-clock reading, taken as UTC.
NormalizedNot(end_date) == end_date

Normalized(end_date) ==
    IF end_date.tzinfo = "none" THEN [end_date EXCEPT !.tzinfo = "utc"] ELSE end_date

RunAtLoose(end_instant, at) ==
    LET run_at == end_instant - TwoDays
    IN IF run_at < at THEN at + ClampDelay ELSE run_at

\* run_at = end_date - 2 days; if run_at <= now: run_at = now + 10 seconds
RunAt(end_instant, at) ==
    LET run_at == end_instant - TwoDays
    IN IF run_at <= at THEN at + ClampDelay ELSE run_at

\* Scheduling that neither cancels first nor replaces an existing id.
ScheduledStoreAppend(store, job_id, end_instant, at) ==
    LET run_at == RunAt(end_instant, at)
    IN store \cup
       {[id |-> ReminderId(job_id), func |-> "send_closing_reminder",
         run_date |-> run_at, args |-> job_id],
        [id |-> AutoEvalId(job_id), func |-> "run_auto_evaluation",
         run_date |-> run_at + EvalOffset, args |-> job_id]}

\* The store after schedule_pre_close_tasks(job_id, end_date) at time `at`.
ScheduledStore(store, job_id, end_instant, at) ==
    LET run_at == RunAt(end_instant, at)
        reminder == [id |-> ReminderId(job_id), func |-> "send_closing_reminder",
                     run_date |-> run_at, args |-> job_id]
        auto_eval == [id |-> AutoEvalId(job_id), func |-> "run_auto_evaluation",
                      run_date |-> run_at + EvalOffset, args |-> job_id]
    IN AddJob(AddJob(CancelledStore(store, job_id), reminder), auto_eval)

TasksOf(job_id) == {t \in jobstore : t.args = job_id}

(***************************************************************************)
(* utils.scheduler: the tables                                             *)
(***************************************************************************)
\* The users table: id and role.
UserRoles == (1 :> "hr") @@ (2 :> "hr") @@ (3 :> "team_lead")

EveryUser == DOMAIN UserRoles

\* db.query(User).filter(User.role == UserRole.hr).all()
HrUsers == {u \in DOMAIN UserRoles : UserRoles[u] = "hr"}

\* int(hashlib.md5(name.encode()).hexdigest(), 16) % 51 for the names used.
Md5Mod51(name) ==
    CASE name = "Alice" -> 12
      [] name = "Bob" -> 19
      [] name = "Dana" -> 19
      [] name = "Unknown" -> 31
      [] name = "Sana" -> 0
      [] name = "Zoe" -> 31
      [] name = "Sven" -> 50

\* name = cand.name or "Unknown"
DisplayName(cand) == IF cand.name = "" THEN "Unknown" ELSE cand.name

\* A hash salted with the row id.
SyntheticScoreSalted(cand) == 45 + ((Md5Mod51(DisplayName(cand)) + cand.id) % 51)

\* score = 45 + (hash_val % 51)
SyntheticScore(cand) == 45 + Md5Mod51(DisplayName(cand))

CandidatesOf(job_id) == {c \in candidates : c.job_id = job_id}

HasEvaluation(evals, cand_id) == \E e \in evals : e.candidate_id = cand_id

NextEvaluationId(evals) ==
    IF evals = {} THEN 1
    ELSE 1 + (CHOOSE m \in {e.id : e \in evals} : \A e \in evals : e.id <= m)

AutomatedEvaluation(evals, cand, job_id) ==
    [id |-> NextEvaluationId(evals),
     candidate_id |-> cand.id,
     job_id |-> job_id,
     overall_score |-> SyntheticScore(cand),
     grade |-> Scheduler_compute_grade(SyntheticScore(cand)),
     is_automated |-> TRUE]

\* An upsert: an existing row is rewritten with the automated values.
StoredEvaluationUpsert(committed, pending, cand, job_id) ==
    IF HasEvaluation(committed, cand.id)
    THEN {[e EXCEPT !.overall_score = SyntheticScore(cand),
                    !.grade = Scheduler_compute_grade(SyntheticScore(cand)),
                    !.is_automated = TRUE] :
              e \in {x \in pending : x.candidate_id = cand.id}}
         \cup {x \in pending : x.candidate_id # cand.id}
    ELSE pending \cup {AutomatedEvaluation(pending, cand, job_id)}

\* existing_eval = query(...).first(); if not existing_eval: db.add(...).
\* The session does not autoflush (database.py line 39), so the query reads
\* the committed rows; `pending` is the session's view with its own adds.
StoredEvaluation(committed, pending, cand, job_id) ==
    IF HasEvaluation(committed, cand.id) THEN pending
    ELSE pending \cup {AutomatedEvaluation(pending, cand, job_id)}

RECURSIVE EvaluateAll(_, _, _, _)
\* The for-loop over candidates_rows (fetched in id order), on the session.
EvaluateAll(committed, pending, todo, job_id) ==
    IF todo = {} THEN pending
    ELSE LET cand == CHOOSE c \in todo : \A d \in todo : c.id <= d.id
         IN EvaluateAll(committed,
                        StoredEvaluation(committed, pending, cand, job_id),
                        todo \ {cand}, job_id)

\* A table without the unique constraint accepts every insert.
NoUniqueConstraint(evals) == FALSE

\* candidate_id is unique=True (models.py line 158): the commit raises
\* IntegrityError when the session holds two rows for one candidate.
ViolatesUnique(evals) ==
    \E e, f \in evals : e # f /\ e.candidate_id = f.candidate_id

\* An unstable sort: the last candidate with the highest score comes first.
TopCandidateLastOnTies(job_id) ==
    CHOOSE c \in CandidatesOf(job_id) :
        \A d \in CandidatesOf(job_id) :
            \/ SyntheticScore(d) < SyntheticScore(c)
            \/ SyntheticScore(d) = SyntheticScore(c) /\ c.id >= d.id

\* evaluations.sort(key=score, reverse=True); top = evaluations[0]:
\* the first candidate, in fetch order, with the highest score.
TopCandidate(job_id) ==
    CHOOSE c \in CandidatesOf(job_id) :
        \A d \in CandidatesOf(job_id) :
            \/ SyntheticScore(d) < SyntheticScore(c)
            \/ SyntheticScore(d) = SyntheticScore(c) /\ c.id <= d.id

RECURSIVE NotifyAll(_, _, _, _)
\* for hr in hr_users: db.add(Notification(...)), in user id order.
NotifyAll(rows, users, type, payload) ==
    IF users = {} THEN rows
    ELSE LET hr == CHOOSE u \in users : \A v \in users : u <= v
         IN NotifyAll(Append(rows, [user_id |-> hr, type |-> type,
                                    related_job_id |-> payload.job_id,
                                    message |-> payload.message]),
                      users \ {hr}, type, payload)

ReminderMessage(job_id) ==
    [job_id |-> job_id, message |-> <<"Reminder: closing in 2 days", 0, "", "">>]

EvaluationCompleteMessage(job_id) ==
    LET top == TopCandidate(job_id)
    IN [job_id |-> job_id,
        message |-> <<"CV evaluation complete", Cardinality(CandidatesOf(job_id)),
                      DisplayName(top), Scheduler_compute_grade(SyntheticScore(top))>>]

(***************************************************************************)
(* utils.scheduler: operations                                             *)
(***************************************************************************)
MaxCalls == 2          \* schedule_pre_close_tasks calls in one behaviour
MaxDays == 1           \* the clock stops at MaxDays days

\* History of a job's last schedule_pre_close_tasks call: its end_date, the
\* clock at the call, whether it raised, the job's tasks it found in the store,
\* and whether none of the job's tasks was fired or cancelled since.
NeverScheduled ==
    [called |-> FALSE, raised |-> FALSE, end_date |-> 0, at |-> 0,
     found |-> {}, undisturbed |-> FALSE]

Disturbed(job_id) == [last_schedule EXCEPT ![job_id].undisturbed = FALSE]

\* The end dates a caller passes at time `at`: past, less than two days away,
\* exactly two days away, and later; naive (as the database returns them) or
\* timezone-aware.
EndDatesAt(at) ==
    {[instant |-> at + d, tzinfo |-> tz] :
        d \in {-Day, Hour, TwoDays, TwoDays + Day}, tz \in {"none", "utc"}}

\* schedule_pre_close_tasks(job_id, end_date).  Comparing a naive run_at
\* with the aware now raises TypeError (line 59).
SchedulePreCloseTasks(job_id, end_date) ==
    /\ calls < MaxCalls
    /\ calls' = calls + 1
    /\ last_op' = Op("schedule_pre_close_tasks", job_id, "none",
                     Normalized(end_date).tzinfo = "none")
    /\ LET normal == Normalized(end_date)
       IN IF normal.tzinfo = "none"
          THEN /\ last_schedule' = [last_schedule EXCEPT ![job_id] =
                     [called |-> TRUE, raised |-> TRUE, end_date |-> end_date.instant,
                      at |-> now, found |-> TasksOf(job_id), undisturbed |-> FALSE]]
               /\ UNCHANGED jobstore
          ELSE /\ jobstore' = ScheduledStore(jobstore, job_id, normal.instant, now)
               /\ last_schedule' = [last_schedule EXCEPT ![job_id] =
                     [called |-> TRUE, raised |-> FALSE, end_date |-> end_date.instant,
                      at |-> now, found |-> TasksOf(job_id), undisturbed |-> TRUE]]
    /\ UNCHANGED <<now, job_status, job_end_date, process, candidates,
                   candidate_evaluations, notifications>>

\* cancel_job_schedule(job_id)
CancelJobSchedule(job_id) ==
    /\ jobstore' = CancelledStore(jobstore, job_id)
    /\ last_schedule' = Disturbed(job_id)
    /\ last_op' = Op("cancel_job_schedule", job_id, "none", CancelRaises(jobstore, job_id))
    /\ UNCHANGED <<now, job_status, job_end_date, process, candidates,
                   candidate_evaluations, notifications, calls>>

\* The running scheduler wakes up at the next run_date: the clock never
\* passes a pending task.
AdvanceClock ==
    /\ \E t \in {task.run_date : task \in jobstore} \cup {now + Day} :
          /\ t > now
          /\ t <= MaxDays * Day + Hour
          /\ \A task \in jobstore : t <= task.run_date
          /\ now' = t
    /\ last_op' = Op("clock", 0, "none", FALSE)
    /\ UNCHANGED <<jobstore, job_status, job_end_date, process, candidates,
                   candidate_evaluations, notifications, last_schedule, calls>>

\* send_closing_reminder(job_id) on the tables.  db_fails: the commit
\* raises, the session is rolled back.
SendClosingReminder(job_id, db_fails) ==
    /\ IF job_status[job_id] # "active" \/ db_fails
       THEN UNCHANGED notifications
       ELSE notifications' = NotifyAll(notifications, HrUsers, "closing_reminder",
                                       ReminderMessage(job_id))
    /\ last_op' = Op("send_closing_reminder", job_id,
                     IF db_fails THEN "commit" ELSE "none", FALSE)
    /\ UNCHANGED <<job_status, job_end_date, candidates, candidate_evaluations>>

\* run_auto_evaluation without the status test of line 138.
RunAutoEvaluationUnguarded(job_id, fault) ==
    /\ LET session == EvaluateAll(candidate_evaluations, candidate_evaluations,
                                  CandidatesOf(job_id), job_id)
       IN IF CandidatesOf(job_id) = {}
          THEN UNCHANGED <<candidate_evaluations, notifications>>
          ELSE IF fault = "first" \/ ViolatesUnique(session)
          THEN UNCHANGED <<candidate_evaluations, notifications>>
          ELSE /\ candidate_evaluations' = session
               /\ IF fault = "second"
                  THEN UNCHANGED notifications
                  ELSE notifications' =
                           NotifyAll(notifications, HrUsers, "cv_evaluation_complete",
                                     EvaluationCompleteMessage(job_id))
    /\ last_op' = Op("run_auto_evaluation", job_id, fault, FALSE)
    /\ UNCHANGED <<job_status, job_end_date, candidates>>

\* run_auto_evaluation(job_id) on the tables.  fault: which of the two
\* commits raises ("none", "first", "second").
RunAutoEvaluation(job_id, fault) ==
    /\ LET session == EvaluateAll(candidate_evaluations, candidate_evaluations,
                                  CandidatesOf(job_id), job_id)
       IN IF job_status[job_id] # "active" \/ CandidatesOf(job_id) = {}
          THEN UNCHANGED <<candidate_evaluations, notifications>>
          ELSE IF fault = "first" \/ ViolatesUnique(session)
          THEN UNCHANGED <<candidate_evaluations, notifications>>
          ELSE /\ candidate_evaluations' = session
               /\ IF fault = "second"
                  THEN UNCHANGED notifications
                  ELSE notifications' =
                           NotifyAll(notifications, HrUsers, "cv_evaluation_complete",
                                     EvaluationCompleteMessage(job_id))
    /\ last_op' = Op("run_auto_evaluation", job_id, fault, FALSE)
    /\ UNCHANGED <<job_status, job_end_date, candidates>>

\* A firing whose exception escapes the task and ends the scheduler with
\* everything it holds.
FireReminderUncaught(task, db_fails) ==
    /\ task \in jobstore
    /\ task.func = "send_closing_reminder"
    /\ task.run_date <= now
    /\ IF db_fails
       THEN jobstore' = {} /\ process' = "down"
       ELSE jobstore' = jobstore \ {task} /\ UNCHANGED process
    /\ last_schedule' = Disturbed(task.args)
    /\ SendClosingReminder(task.args, db_fails)
    /\ UNCHANGED <<now, calls>>

\* The scheduler fires a due reminder task; a date-triggered task leaves the
\* store when it fires.
FireReminder(task, db_fails) ==
    /\ task \in jobstore
    /\ task.func = "send_closing_reminder"
    /\ task.run_date <= now
    /\ jobstore' = jobstore \ {task}
    /\ last_schedule' = Disturbed(task.args)
    /\ SendClosingReminder(task.args, db_fails)
    /\ UNCHANGED <<now, calls, process>>

\* The scheduler fires a due auto-evaluation task.
FireAutoEvaluation(task, fault) ==
    /\ task \in jobstore
    /\ task.func = "run_auto_evaluation"
    /\ task.run_date <= now
    /\ jobstore' = jobstore \ {task}
    /\ last_schedule' = Disturbed(task.args)
    /\ RunAutoEvaluation(task.args, fault)
    /\ UNCHANGED <<now, calls, process>>

(***************************************************************************)
(* The scheduler with its tables: initial states and next-state relation.  *)
(***************************************************************************)
CandidateRows ==
    {[id |-> 1, job_id |-> 7, name |-> "Alice"],
     [id |-> 2, job_id |-> 7, name |-> "Bob"],
     [id |-> 3, job_id |-> 7, name |-> ""],
     [id |-> 4, job_id |-> 9, name |-> "Dana"]}

\* An evaluation entered by hand for candidate 1.
ManualEvaluation ==
    [id |-> 1, candidate_id |-> 1, job_id |-> 7, overall_score |-> 88,
     grade |-> "A-", is_automated |-> FALSE]

OthersIdleForSched == RankIdle /\ GradeIdle /\ EvalIdle /\ WorkersIdle


(***************************************************************************)
(* The two task functions run on the tables, any number of times and in    *)
(* any order, while candidates are imported (api/keka.py).                 *)
(***************************************************************************)
MaxNotifications == 6  \* the task functions run while fewer rows are stored

\* keka.py: db.add(Candidate(job_id=..., name=...)) for an imported candidate.
ImportCandidate(cand) ==
    /\ cand \notin candidates
    /\ candidates' = candidates \cup {cand}
    /\ last_op' = Op("import_candidates", cand.job_id, "none", FALSE)
    /\ UNCHANGED <<job_status, job_end_date, candidate_evaluations, notifications>>

InitTasks ==
    /\ now = 0
    /\ jobstore = {}
    /\ job_status \in [Jobs -> {"active", "cancelled", NoRow}]
    /\ job_end_date = [j \in Jobs |-> NoEndDate]
    /\ process = "up"
    /\ last_op = NoOp
    /\ candidates \in SUBSET CandidateRows
    /\ candidate_evaluations \in
           {{}} \cup {{ManualEvaluation} : c \in {x \in candidates : x.id = 1}}
    /\ notifications = <<>>
    /\ last_schedule = [j \in Jobs |-> NeverScheduled]
    /\ calls = 0
    /\ OthersIdleForSched

TasksUnchanged ==
    UNCHANGED <<now, jobstore, process, last_schedule, calls, running,
                rank_vars, grade_vars, eval_vars>>

NextTasks ==
    \/ \E j \in Jobs : \E f \in BOOLEAN :
          /\ Len(notifications) < MaxNotifications
          /\ SendClosingReminder(j, f)
          /\ TasksUnchanged
    \/ \E j \in Jobs : \E f \in {"none", "first", "second"} :
          /\ Len(notifications) < MaxNotifications
          /\ RunAutoEvaluation(j, f)
          /\ TasksUnchanged
    \/ \E c \in CandidateRows : ImportCandidate(c) /\ TasksUnchanged

SpecTasks == InitTasks /\ [][NextTasks]_vars

(***************************************************************************)
(* The life of a job: activation (api/job_requests.py), cancellation,     *)
(* process crash and startup (main.py), the clock and the firing tasks.    *)
(***************************************************************************)
MaxLifeDays == 3       \* the clock's free jumps stop at MaxLifeDays days
MaxLifeCalls == 2      \* the process stops crashing after so many scheduling calls

\* The user who created the jobs (a team lead).
CreatorId == 3

\* What schedule_pre_close_tasks records in the history of job_id.
ScheduleRecord(store, job_id, end_instant, at) ==
    [called |-> TRUE, raised |-> FALSE, end_date |-> end_instant, at |-> at,
     found |-> {t \in store : t.args = job_id}, undisturbed |-> TRUE]

\* job.end_date as the DateTime column returns it: naive.
StoredEndDate(job_id) == [instant |-> job_end_date[job_id].instant, tzinfo |-> "none"]

\* activate_job: a pending_hr job becomes active, its tasks are scheduled
\* when it has an end date, its creator is notified.
ActivateJob(job_id) ==
    /\ process = "up"
    /\ job_status[job_id] = "pending_hr"
    /\ job_status' = [job_status EXCEPT ![job_id] = "active"]
    /\ IF job_end_date[job_id] # NoEndDate
       THEN LET end == Normalized(StoredEndDate(job_id)).instant
            IN /\ jobstore' = ScheduledStore(jobstore, job_id, end, now)
               /\ last_schedule' = [last_schedule EXCEPT ![job_id] =
                                        ScheduleRecord(jobstore, job_id, end, now)]
               /\ calls' = calls + 1
       ELSE UNCHANGED <<jobstore, last_schedule, calls>>
    /\ notifications' = Append(notifications,
           [user_id |-> CreatorId, type |-> "job_activated", related_job_id |-> job_id,
            message |-> <<"Your job request has been activated by HR", 0, "", "">>])
    /\ last_op' = Op("activate_job", job_id, "none", FALSE)
    /\ UNCHANGED <<now, job_end_date, process, candidates, candidate_evaluations>>

\* cancel_job: the status becomes cancelled and HR is notified; the job's
\* scheduled tasks are left in the store.
CancelJob(job_id) ==
    /\ process = "up"
    /\ job_status[job_id] \notin {NoRow, "cancelled", "closed"}
    /\ job_status' = [job_status EXCEPT ![job_id] = "cancelled"]
    /\ notifications' = NotifyAll(notifications, HrUsers, "job_cancelled",
                                  [job_id |-> job_id,
                                   message |-> <<"Job cancelled", 0, "", "">>])
    /\ last_op' = Op("cancel_job", job_id, "none", FALSE)
    /\ UNCHANGED <<now, jobstore, job_end_date, process, candidates,
                   candidate_evaluations, last_schedule, calls>>

\* The process ends: the MemoryJobStore and its tasks are gone.
Crash ==
    /\ process = "up"
    /\ calls < MaxLifeCalls
    /\ process' = "down"
    /\ jobstore' = {}
    /\ last_schedule' = [j \in Jobs |-> [last_schedule[j] EXCEPT !.undisturbed = FALSE]]
    /\ last_op' = Op("shutdown", 0, "none", FALSE)
    /\ UNCHANGED <<now, job_status, job_end_date, candidates, candidate_evaluations,
                   notifications, calls>>

NeedsRescheduleAnyStatus(status, stored, at) ==
    /\ stored # NoEndDate
    /\ Normalized([instant |-> stored.instant, tzinfo |-> "none"]).instant > at

\* reschedule_active_jobs: status == active, end_date is not NULL, and
\* end (taken as UTC) > now.
NeedsReschedule(status, stored, at) ==
    /\ status = "active"
    /\ stored # NoEndDate
    /\ Normalized([instant |-> stored.instant, tzinfo |-> "none"]).instant > at

JobsToReschedule ==
    {j \in Jobs : NeedsReschedule(job_status[j], job_end_date[j], now)}

RECURSIVE RescheduledStore(_, _)
\* The for-loop of reschedule_active_jobs on the store.
RescheduledStore(store, todo) ==
    IF todo = {} THEN store
    ELSE LET j == CHOOSE x \in todo : \A y \in todo : x <= y
         IN RescheduledStore(
                ScheduledStore(store, j, Normalized(StoredEndDate(j)).instant, now),
                todo \ {j})

\* lifespan: start_scheduler() on a fresh process, then reschedule_active_jobs().
Startup ==
    /\ process = "down"
    /\ process' = "up"
    /\ jobstore' = RescheduledStore({}, JobsToReschedule)
    /\ last_schedule' =
          [j \in Jobs |->
              IF j \in JobsToReschedule
              THEN ScheduleRecord({}, j, Normalized(StoredEndDate(j)).instant, now)
              ELSE last_schedule[j]]
    /\ calls' = calls + Cardinality(JobsToReschedule)
    /\ last_op' = Op("startup", 0, "none", FALSE)
    /\ UNCHANGED <<now, job_status, job_end_date, candidates, candidate_evaluations,
                   notifications>>

\* The running scheduler sleeps until its next run_date.
TickToTask ==
    /\ process = "up"
    /\ \E t \in {task.run_date : task \in jobstore} :
          /\ t > now
          /\ \A task \in jobstore : t <= task.run_date
          /\ now' = t
    /\ last_op' = Op("clock", 0, "none", FALSE)
    /\ UNCHANGED <<jobstore, job_status, job_end_date, process, candidates,
                   candidate_evaluations, notifications, last_schedule, calls>>

\* A day passes with nothing due (always so while the process is down).
TickDay ==
    /\ now + Day <= MaxLifeDays * Day
    /\ \A task \in jobstore : now + Day <= task.run_date
    /\ now' = now + Day
    /\ last_op' = Op("clock", 0, "none", FALSE)
    /\ UNCHANGED <<jobstore, job_status, job_end_date, process, candidates,
                   candidate_evaluations, notifications, last_schedule, calls>>

\* The scheduler fires a due task and the task's commits succeed.
FireDue ==
    \E t \in jobstore : FireReminder(t, FALSE) \/ FireAutoEvaluation(t, "none")

\* End dates less than two days and more than two days after the start.
LifeEndDates == {EndDate(Hour), EndDate(TwoDays + Hour)}

\* Both jobs wait for HR; job 7 has an end date, job 9 may have none.
InitLife ==
    /\ now = 0
    /\ jobstore = {}
    /\ job_status = [j \in Jobs |-> "pending_hr"]
    /\ job_end_date \in {f \in [Jobs -> LifeEndDates \cup {NoEndDate}] : f[7] # NoEndDate}
    /\ process = "up"
    /\ candidates = CandidateRows
    /\ candidate_evaluations = {}
    /\ notifications = <<>>
    /\ last_schedule = [j \in Jobs |-> NeverScheduled]
    /\ calls = 0
    /\ last_op = NoOp
    /\ OthersIdleForSched

AgentsUnchanged == UNCHANGED <<rank_vars, grade_vars, eval_vars>>

OthersUnchanged == AgentsUnchanged /\ UNCHANGED running

NextLife ==
    \/ \E j \in Jobs : ActivateJob(j) /\ OthersUnchanged
    \/ \E j \in Jobs : CancelJob(j) /\ OthersUnchanged
    \/ Crash /\ OthersUnchanged
    \/ Startup /\ OthersUnchanged
    \/ TickToTask /\ OthersUnchanged
    \/ TickDay /\ OthersUnchanged
    \/ FireDue /\ OthersUnchanged

SpecLife == InitLife /\ [][NextLife]_vars

\* Due tasks fire, the scheduler wakes up for its next task, and a process
\* that is down is started again.
FairLife ==
    /\ WF_vars(FireDue /\ OthersUnchanged)
    /\ WF_vars(TickToTask /\ OthersUnchanged)
    /\ WF_vars(Startup /\ OthersUnchanged)

SpecLifeFair == SpecLife /\ FairLife

(***************************************************************************)
(* The scheduler with direct schedule and cancel calls, the clock and the  *)
(* firing tasks, commits failing or not.                                   *)
(***************************************************************************)
\* Job 7 is active with three candidates, job 9 was cancelled.
InitSched ==
    /\ now = 0
    /\ jobstore = {}
    /\ job_status = [j \in Jobs |-> IF j = 7 THEN "active" ELSE "cancelled"]
    /\ job_end_date = [j \in Jobs |-> NoEndDate]
    /\ process = "up"
    /\ last_op = NoOp
    /\ candidates = {c \in CandidateRows : c.job_id = 7}
    /\ candidate_evaluations = {}
    /\ notifications = <<>>
    /\ last_schedule = [j \in Jobs |-> NeverScheduled]
    /\ calls = 0
    /\ OthersIdleForSched

NextSched ==
    \/ \E j \in Jobs : \E d \in EndDatesAt(now) :
          SchedulePreCloseTasks(j, d) /\ OthersUnchanged
    \/ \E j \in Jobs : CancelJobSchedule(j) /\ OthersUnchanged
    \/ AdvanceClock /\ OthersUnchanged
    \/ \E t \in jobstore : \E f \in BOOLEAN :
          FireReminder(t, f) /\ OthersUnchanged
    \/ \E t \in jobstore : \E f \in {"none", "first", "second"} :
          FireAutoEvaluation(t, f) /\ OthersUnchanged

SpecSched == InitSched /\ [][NextSched]_vars

(***************************************************************************)
(* Every operation that reaches the scheduler's store: activation, direct  *)
(* schedule and cancel calls, shutdown and startup, the clock and the      *)
(* firing tasks.                                                           *)
(***************************************************************************)
\* Job 7 is active and closes in two days and an hour; job 9 waits for HR
\* and closes in an hour.  No candidate has applied.
InitStore ==
    /\ now = 0
    /\ jobstore = {}
    /\ job_status = [j \in Jobs |-> IF j = 7 THEN "active" ELSE "pending_hr"]
    /\ job_end_date = [j \in Jobs |-> IF j = 7 THEN EndDate(TwoDays + Hour)
                                      ELSE EndDate(Hour)]
    /\ process = "up"
    /\ last_op = NoOp
    /\ candidates = {}
    /\ candidate_evaluations = {}
    /\ notifications = <<>>
    /\ last_schedule = [j \in Jobs |-> NeverScheduled]
    /\ calls = 0
    /\ OthersIdleForSched

NextStore ==
    \/ \E j \in Jobs : ActivateJob(j) /\ OthersUnchanged
    \/ \E j \in Jobs :
          process = "up" /\ SchedulePreCloseTasks(j, StoredEndDate(j)) /\ OthersUnchanged
    \/ \E j \in Jobs :
          process = "up" /\ CancelJobSchedule(j) /\ OthersUnchanged
    \/ Crash /\ OthersUnchanged
    \/ Startup /\ OthersUnchanged
    \/ TickToTask /\ OthersUnchanged
    \/ TickDay /\ OthersUnchanged
    \/ FireDue /\ OthersUnchanged

SpecStore == InitStore /\ [][NextStore]_vars

(***************************************************************************)
(* run_auto_evaluation on tables whose candidates share names and scores,  *)
(* run after run, while candidates are imported.                           *)
(***************************************************************************)
\* Candidates of two active jobs: the lowest and the highest score, a name
\* used twice in one job and once in the other, and a candidate without a
\* name whose score ties with theirs.
AutoRows ==
    {[id |-> 1, job_id |-> 7, name |-> "Sana"],
     [id |-> 2, job_id |-> 7, name |-> "Zoe"],
     [id |-> 3, job_id |-> 7, name |-> ""],
     [id |-> 4, job_id |-> 7, name |-> "Zoe"],
     [id |-> 5, job_id |-> 9, name |-> "Zoe"],
     [id |-> 6, job_id |-> 9, name |-> "Sven"]}

\* An evaluation entered by hand for candidate 2.
AutoManualEvaluation ==
    [id |-> 1, candidate_id |-> 2, job_id |-> 7, overall_score |-> 70,
     grade |-> "B-", is_automated |-> FALSE]

\* Every candidate has applied, or all but one who is imported later.
InitAuto ==
    /\ now = 0
    /\ jobstore = {}
    /\ job_status = [j \in Jobs |-> "active"]
    /\ job_end_date = [j \in Jobs |-> NoEndDate]
    /\ process = "up"
    /\ last_op = NoOp
    /\ candidates \in {AutoRows} \cup {AutoRows \ {c} : c \in AutoRows}
    /\ candidate_evaluations \in
           {{}} \cup {{AutoManualEvaluation} : c \in {x \in candidates : x.id = 2}}
    /\ notifications = <<>>
    /\ last_schedule = [j \in Jobs |-> NeverScheduled]
    /\ calls = 0
    /\ OthersIdleForSched

MaxAutoNotifications == 4  \* run_auto_evaluation runs while fewer rows are stored

NextAuto ==
    \/ \E j \in Jobs : \E f \in {"none", "first", "second"} :
          /\ Len(notifications) < MaxAutoNotifications
          /\ RunAutoEvaluation(j, f)
          /\ TasksUnchanged
    \/ \E c \in AutoRows : ImportCandidate(c) /\ TasksUnchanged

SpecAuto == InitAuto /\ [][NextAuto]_vars


(***************************************************************************)
(* The task functions step by step: each fired task runs on a worker       *)
(* thread with its own session, and other threads and requests run between *)
(* its reads and its commits.                                              *)
(***************************************************************************)
ReminderRun(job_id) ==
    [NoRun EXCEPT !.func = "send_closing_reminder", !.job_id = job_id, !.pc = "notify"]

AutoEvaluationRun(job_id, rows) ==
    [NoRun EXCEPT !.func = "run_auto_evaluation", !.job_id = job_id, !.pc = "loop",
                  !.rows = rows, !.todo = rows]

\* The next candidate of the for-loop: rows are fetched in id order.
NextCandidate(todo) == CHOOSE c \in todo : \A d \in todo : c.id <= d.id

\* top = evaluations[0] after the stable descending sort of the fetched rows.
TopOfRows(rows) ==
    CHOOSE c \in rows :
        \A d \in rows :
            \/ SyntheticScore(d) < SyntheticScore(c)
            \/ SyntheticScore(d) = SyntheticScore(c) /\ c.id <= d.id

\* The message built from the run's own evaluations list.
SummaryOfRows(job_id, rows) ==
    [job_id |-> job_id,
     message |-> <<"CV evaluation complete", Cardinality(rows),
                   DisplayName(TopOfRows(rows)),
                   Scheduler_compute_grade(SyntheticScore(TopOfRows(rows)))>>]

\* The table after the INSERTs of the session's new records are flushed.
Flushed(committed, pending, job_id) == EvaluateAll({}, committed, pending, job_id)

TablesSame ==
    UNCHANGED <<job_status, job_end_date, candidates, candidate_evaluations,
                notifications>>

\* send_closing_reminder, lines 106-110: the session is opened and the job
\* is read; the task returns when the job is not active.
BeginReminder(w, job_id) ==
    /\ running[w] = NoRun
    /\ running' = [running EXCEPT ![w] =
                      IF job_status[job_id] = "active" THEN ReminderRun(job_id)
                      ELSE NoRun]
    /\ last_op' = Op("send_closing_reminder: read", job_id, "none", FALSE)
    /\ TablesSame

\* send_closing_reminder, lines 112-126: the notifications are added and
\* committed, or the commit raises and the session is rolled back.
CommitReminder(w, db_fails) ==
    /\ running[w].func = "send_closing_reminder"
    /\ running[w].pc = "notify"
    /\ notifications' =
          IF db_fails THEN notifications
          ELSE NotifyAll(notifications, HrUsers, "closing_reminder",
                         ReminderMessage(running[w].job_id))
    /\ running' = [running EXCEPT ![w] = NoRun]
    /\ last_op' = Op("send_closing_reminder: commit", running[w].job_id,
                     IF db_fails THEN "commit" ELSE "none", FALSE)
    /\ UNCHANGED <<job_status, job_end_date, candidates, candidate_evaluations>>

\* run_auto_evaluation, lines 137-148: the job and its candidates are read;
\* the task returns when the job is not active or has no candidate.
BeginAutoEvaluation(w, job_id) ==
    /\ running[w] = NoRun
    /\ running' = [running EXCEPT ![w] =
                      IF job_status[job_id] = "active" /\ CandidatesOf(job_id) # {}
                      THEN AutoEvaluationRun(job_id, CandidatesOf(job_id))
                      ELSE NoRun]
    /\ last_op' = Op("run_auto_evaluation: read", job_id, "none", FALSE)
    /\ TablesSame

\* run_auto_evaluation, lines 152-182, one iteration: the committed records
\* are queried for the candidate and a record is added to the session when
\* none is found.
CheckCandidate(w) ==
    /\ running[w].func = "run_auto_evaluation"
    /\ running[w].pc = "loop"
    /\ LET cand == NextCandidate(running[w].todo)
           todo == running[w].todo \ {cand}
       IN running' = [running EXCEPT
              ![w].todo = todo,
              ![w].pending = IF HasEvaluation(candidate_evaluations, cand.id) THEN @
                             ELSE @ \cup {cand},
              ![w].pc = IF todo = {} THEN "commit" ELSE "loop"]
    /\ last_op' = Op("run_auto_evaluation: check", running[w].job_id, "none", FALSE)
    /\ TablesSame

\* run_auto_evaluation, lines 184-187: the first commit.  The unique
\* candidate_id rejects a record for a candidate that has one by now; that
\* error, like any other, is caught at line 207 and the session rolled back.
CommitEvaluations(w, db_fails) ==
    /\ running[w].func = "run_auto_evaluation"
    /\ running[w].pc = "commit"
    /\ LET flushed == Flushed(candidate_evaluations, running[w].pending,
                              running[w].job_id)
           rejected == ViolatesUnique(flushed)
       IN /\ IF db_fails \/ rejected
             THEN /\ UNCHANGED candidate_evaluations
                  /\ running' = [running EXCEPT ![w] = NoRun]
             ELSE /\ candidate_evaluations' = flushed
                  /\ running' = [running EXCEPT ![w].pc = "notify", ![w].pending = {}]
          /\ last_op' = Op("run_auto_evaluation: commit", running[w].job_id,
                           IF rejected THEN "unique"
                           ELSE IF db_fails THEN "first" ELSE "none", FALSE)
    /\ UNCHANGED <<job_status, job_end_date, candidates, notifications>>

\* run_auto_evaluation, lines 189-211: the notifications are added and
\* committed, or the commit raises and the session is rolled back.
NotifyComplete(w, db_fails) ==
    /\ running[w].func = "run_auto_evaluation"
    /\ running[w].pc = "notify"
    /\ notifications' =
          IF db_fails THEN notifications
          ELSE NotifyAll(notifications, HrUsers, "cv_evaluation_complete",
                         SummaryOfRows(running[w].job_id, running[w].rows))
    /\ running' = [running EXCEPT ![w] = NoRun]
    /\ last_op' = Op("run_auto_evaluation: notify", running[w].job_id,
                     IF db_fails THEN "second" ELSE "none", FALSE)
    /\ UNCHANGED <<job_status, job_end_date, candidates, candidate_evaluations>>

\* The scheduler hands a due task to a free worker thread; a date-triggered
\* task leaves the store when it is submitted.
StartDue(w, task) ==
    /\ process = "up"
    /\ task \in jobstore
    /\ task.run_date <= now
    /\ jobstore' = jobstore \ {task}
    /\ last_schedule' = Disturbed(task.args)
    /\ IF task.func = "send_closing_reminder"
       THEN BeginReminder(w, task.args)
       ELSE BeginAutoEvaluation(w, task.args)
    /\ UNCHANGED <<now, calls, process>>

StoreSame == UNCHANGED <<now, jobstore, process, last_schedule, calls>>

(***************************************************************************)
(* One process: activation and cancellation requests, the clock, and the   *)
(* fired tasks running on the worker threads.                              *)
(***************************************************************************)
\* Both jobs wait for HR and close in an hour; job 7 has two candidates,
\* job 9 has one.
InitPool ==
    /\ now = 0
    /\ jobstore = {}
    /\ job_status = [j \in Jobs |-> "pending_hr"]
    /\ job_end_date = [j \in Jobs |-> EndDate(Hour)]
    /\ process = "up"
    /\ candidates = {c \in CandidateRows : c.id # 3}
    /\ candidate_evaluations = {}
    /\ notifications = <<>>
    /\ last_schedule = [j \in Jobs |-> NeverScheduled]
    /\ calls = 0
    /\ last_op = NoOp
    /\ OthersIdleForSched

NextPool ==
    \/ \E j \in Jobs : ActivateJob(j) /\ OthersUnchanged
    \/ \E j \in Jobs : CancelJob(j) /\ OthersUnchanged
    \/ TickToTask /\ OthersUnchanged
    \/ \E w \in Workers : \E t \in jobstore : StartDue(w, t) /\ AgentsUnchanged
    \/ \E w \in Workers : \E f \in BOOLEAN :
          CommitReminder(w, f) /\ StoreSame /\ AgentsUnchanged
    \/ \E w \in Workers : CheckCandidate(w) /\ StoreSame /\ AgentsUnchanged
    \/ \E w \in Workers : \E f \in BOOLEAN :
          CommitEvaluations(w, f) /\ StoreSame /\ AgentsUnchanged
    \/ \E w \in Workers : \E f \in BOOLEAN :
          NotifyComplete(w, f) /\ StoreSame /\ AgentsUnchanged

SpecPool == InitPool /\ [][NextPool]_vars

(***************************************************************************)
(* Two process instances on one database: each instance's scheduler fires  *)
(* the auto-evaluation task of the same jobs.  Worker w is the thread of   *)
(* instance w.                                                             *)
(***************************************************************************)
MaxInstanceNotifications == 4  \* firings start while fewer rows are stored

\* Both jobs are active; candidate 1 may have a record entered by hand.
InitInstances ==
    /\ now = 0
    /\ jobstore = {}
    /\ job_status = [j \in Jobs |-> "active"]
    /\ job_end_date = [j \in Jobs |-> EndDate(Hour)]
    /\ process = "up"
    /\ candidates = {c \in CandidateRows : c.id # 3}
    /\ candidate_evaluations \in {{}, {ManualEvaluation}}
    /\ notifications = <<>>
    /\ last_schedule = [j \in Jobs |-> NeverScheduled]
    /\ calls = 0
    /\ last_op = NoOp
    /\ OthersIdleForSched

NextInstances ==
    \/ \E w \in Workers : \E j \in Jobs :
          /\ Len(notifications) < MaxInstanceNotifications
          /\ BeginAutoEvaluation(w, j)
          /\ StoreSame /\ AgentsUnchanged
    \/ \E w \in Workers : CheckCandidate(w) /\ StoreSame /\ AgentsUnchanged
    \/ \E w \in Workers : \E f \in BOOLEAN :
          CommitEvaluations(w, f) /\ StoreSame /\ AgentsUnchanged
    \/ \E w \in Workers : \E f \in BOOLEAN :
          NotifyComplete(w, f) /\ StoreSame /\ AgentsUnchanged

SpecInstances == InitInstances /\ [][NextInstances]_vars


(***************************************************************************)
(* Properties of rank_candidates (checked under SpecRank).                 *)
(***************************************************************************)
Shortlist == ranking.shortlist

\* The persona identifier an input evaluation is counted under.
ClaimedPersona(e) == IF e.best_fit_persona = NoKey THEN "unknown" ELSE e.best_fit_persona

InputPersonas == {ClaimedPersona(evaluations[i]) : i \in 1..Len(evaluations)}

InputCount(p) == Cardinality({i \in 1..Len(evaluations) : ClaimedPersona(evaluations[i]) = p})

ShortlistCount(p) == Cardinality({k \in 1..Len(Shortlist) : Shortlist[k].persona = p})

ClaimedCap == IF top_n \div 2 > 4 THEN top_n \div 2 ELSE 4

\* The position in the input list of the evaluation with this candidate_id.
InputPosition(id) == CHOOSE i \in 1..Len(evaluations) : evaluations[i].candidate_id = id

RECURSIVE SumOver(_, _)
SumOver(S, f) ==
    IF S = {} THEN 0
    ELSE LET x == CHOOSE y \in S : TRUE IN f[x] + SumOver(S \ {x}, f)

\* C1: for a non-empty evaluation list and a positive top_n the shortlist has
\* at most top_n entries and their ranks are exactly 1, 2, ..., k in list order.
C1_RanksContiguous ==
    (rank_pc = "return" /\ evaluations # <<>> /\ top_n > 0) =>
        /\ Len(Shortlist) <= top_n
        /\ \A k \in 1..Len(Shortlist) : Shortlist[k].rank = k

\* C1 witness: more candidates than top_n, and top_n >= 2 entries were ranked.
C1_Witness ==
    /\ rank_pc = "return"
    /\ top_n >= 2
    /\ Len(evaluations) > top_n
    /\ Len(Shortlist) = top_n

\* C2: for a positive top_n no persona identifier is carried by more than
\* max(4, top_n // 2) shortlist entries.
C2_PersonaCap ==
    (rank_pc = "return" /\ top_n > 0) =>
        \A p \in InputPersonas \cup {Shortlist[k].persona : k \in 1..Len(Shortlist)} :
            ShortlistCount(p) <= ClaimedCap

\* C2 witness: a persona with more candidates than the cap of 5 (top_n = 10),
\* held at exactly 5 entries while the shortlist is not yet full.
C2_Witness ==
    /\ rank_pc = "return"
    /\ top_n = 10
    /\ InputCount("P1") > 5
    /\ ShortlistCount("P1") = 5
    /\ Len(Shortlist) < top_n

\* C3: scores do not increase with rank, and two shortlisted entries of equal
\* score keep the relative order they had in the input list.
C3_SortedStable ==
    rank_pc = "return" =>
        \A i, j \in 1..Len(Shortlist) :
            i < j =>
                /\ Shortlist[i].score >= Shortlist[j].score
                /\ Shortlist[i].score = Shortlist[j].score =>
                       InputPosition(Shortlist[i].candidate_id)
                           < InputPosition(Shortlist[j].candidate_id)

\* C3 witness: the sort moved a later, better candidate in front of an earlier
\* one, and two shortlisted entries tie.
C3_Witness ==
    /\ rank_pc = "return"
    /\ \E i, j \in 1..Len(Shortlist) :
          /\ i < j
          /\ Shortlist[i].score > Shortlist[j].score
          /\ InputPosition(Shortlist[i].candidate_id)
                 > InputPosition(Shortlist[j].candidate_id)
    /\ \E i, j \in 1..Len(Shortlist) :
          i < j /\ Shortlist[i].score = Shortlist[j].score

\* C4: for a positive top_n the shortlist's length is
\* min(top_n, sum over personas p of min(#input evaluations of p, cap)).
C4_ShortlistLength ==
    (rank_pc = "return" /\ top_n > 0) =>
        Len(Shortlist) =
            Min2(top_n, SumOver(InputPersonas,
                                [p \in InputPersonas |-> Min2(InputCount(p), ClaimedCap)]))

\* C4 witness: 12 evaluations, 3 personas with 4 candidates each, top_n = 10
\* give exactly 10 entries.
C4_Witness ==
    /\ rank_pc = "return"
    /\ top_n = 10
    /\ Len(evaluations) = 12
    /\ InputPersonas = {"P1", "P2", "P3"}
    /\ \A p \in InputPersonas : InputCount(p) = 4
    /\ Len(Shortlist) = 10

\* C5: for an empty evaluation list and any top_n the result has an empty
\* shortlist, total_evaluated 0, an empty distribution and non-empty notes.
C5_EmptyInput ==
    (rank_pc = "return" /\ evaluations = <<>>) =>
        /\ ranking.shortlist = <<>>
        /\ ranking.total_evaluated = 0
        /\ DOMAIN ranking.persona_distribution = {}
        /\ Len(ranking.notes) > 0
        /\ \A k \in 1..Len(ranking.notes) : ranking.notes[k] # ""

\* C5 witness: the call returned for an empty list and a top_n that is not
\* positive.
C5_Witness ==
    /\ rank_pc = "return"
    /\ evaluations = <<>>
    /\ top_n <= 0
    /\ ranking.total_evaluated = 0

(***************************************************************************)
(* The grade ladder (checked under SpecGrade).                             *)
(***************************************************************************)
ClaimedGrade(s) ==
    CASE s \in 95..100 -> "A+"
      [] s \in 90..94 -> "A"
      [] s \in 85..89 -> "A-"
      [] s \in 80..84 -> "B+"
      [] s \in 75..79 -> "B"
      [] s \in 70..74 -> "B-"
      [] s \in 65..69 -> "C+"
      [] s \in 60..64 -> "C"
      [] s \in 55..59 -> "C-"
      [] s \in 50..54 -> "D"
      [] s \in 0..49 -> "F"

\* C6: for every score in 0..100 the evaluator's grade is the ladder's
\* (A+ from 95, A 90-94, ..., D 50-54, F below 50) and the scheduler's copy
\* returns the same letter.
C6_GradeLadder ==
    grade_pc = "return" =>
        /\ evaluator_grade = ClaimedGrade(score)
        /\ scheduler_grade = evaluator_grade

\* C6 witness: 94 was graded, and both copies say "A".
C6_Witness ==
    /\ grade_pc = "return"
    /\ score = 94
    /\ evaluator_grade = "A"
    /\ scheduler_grade = "A"

(***************************************************************************)
(* evaluate_candidate's aggregation (checked under SpecEval).              *)
(***************************************************************************)
\* The per-persona results of the call, in supplied order.
PersonaResults ==
    [i \in 1..Len(personas) |->
        EvaluateAgainstPersona(personas[i], llm_outcomes[i]).result]

IntegerScores ==
    \A i \in 1..Len(personas) :
        "score" \in PersonaResults[i].keys /\ PersonaResults[i].score \in MinScore..MaxScore

\* The first position, in supplied order, whose score is the maximum.
FirstMaxPosition ==
    CHOOSE i \in 1..Len(personas) :
        /\ \A j \in 1..Len(personas) : PersonaResults[j].score <= PersonaResults[i].score
        /\ \A j \in 1..(i - 1) : PersonaResults[j].score < PersonaResults[i].score

ClaimedPersonaId(persona) ==
    IF "persona_id" \in persona.keys THEN persona.persona_id ELSE "P0"

\* The mean of the per-persona scores, truncated: the m with
\* m * n <= sum < (m + 1) * n.
IsTruncatedMean(m) ==
    LET n == Len(personas)
        total == SumScores(PersonaResults, 1)
    IN m * n <= total /\ total < (m + 1) * n

AggregatesAsClaimed ==
    /\ IsTruncatedMean(evaluation.overall_score)
    /\ evaluation.overall_grade = ClaimedGrade(evaluation.overall_score)
    /\ evaluation.best_fit_persona = ClaimedPersonaId(personas[FirstMaxPosition])
    /\ "explanation" \in PersonaResults[FirstMaxPosition].keys =>
           evaluation.summary = PersonaResults[FirstMaxPosition].explanation

\* C7: against a non-empty persona list with integer per-persona scores in
\* 0..100, evaluate_candidate returns the truncated mean as overall_score, its
\* ladder grade, the first maximal persona's identifier as best_fit_persona and
\* that persona result's explanation as summary.
C7_Aggregation ==
    (eval_pc = "return" /\ personas # <<>> /\ IntegerScores) =>
        /\ evaluation.status = "returned"
        /\ AggregatesAsClaimed

\* Whenever evaluate_candidate does return, its result aggregates as C7 says.
AggregationWhenReturned ==
    (eval_pc = "return" /\ evaluation.status = "returned") =>
        /\ personas # <<>>
        /\ IntegerScores
        /\ AggregatesAsClaimed

\* Every persona carries persona_id, scores are integers: the call returns.
ReturnsWhenPersonasHaveIds ==
    (/\ eval_pc = "return"
     /\ personas # <<>>
     /\ IntegerScores
     /\ \A i \in 1..Len(personas) : "persona_id" \in personas[i].keys) =>
        evaluation.status = "returned"

\* C7 witness: scores 80 and 61 against P1 and P2 gave 70 and P1.
C7_Witness ==
    /\ eval_pc = "return"
    /\ Len(personas) = 2
    /\ PersonaResults[1].score = 80
    /\ PersonaResults[2].score = 61
    /\ evaluation.status = "returned"
    /\ evaluation.overall_score = 70
    /\ evaluation.best_fit_persona = "P1"

(***************************************************************************)
(* Properties of the scheduler (C8, C9 under SpecSched, C10 under          *)
(* SpecTasks).                                                             *)
(***************************************************************************)
\* The reminder's run time as the claims state it, for the last call of job j.
ClaimedRunAt(j) ==
    LET call == last_schedule[j]
    IN IF call.end_date - 2 * 24 * 3600 > call.at
       THEN call.end_date - 2 * 24 * 3600
       ELSE call.at + 10

\* C8: after schedule calls for one job with no firing or cancelling after
\* the last one, the store holds exactly two tasks for the job, a reminder and
\* an auto-evaluation, both timed from the last call's end date.
C8_SecondCallSupersedes ==
    \A j \in Jobs :
        (last_schedule[j].called /\ last_schedule[j].undisturbed) =>
            /\ Cardinality(TasksOf(j)) = 2
            /\ \E r \in TasksOf(j) :
                  r.func = "send_closing_reminder" /\ r.run_date = ClaimedRunAt(j)
            /\ \E a \in TasksOf(j) :
                  a.func = "run_auto_evaluation" /\ a.run_date = ClaimedRunAt(j) + 5

\* C8 witness: a call for job 7 found the two tasks of an earlier call, timed
\* differently, and two tasks timed from the later end date are in the store.
C8_Witness ==
    /\ last_schedule[7].called
    /\ last_schedule[7].undisturbed
    /\ Cardinality(last_schedule[7].found) = 2
    /\ \A t \in last_schedule[7].found : t \notin jobstore
    /\ Cardinality(TasksOf(7)) = 2
    /\ \A t \in TasksOf(7) : t.run_date >= ClaimedRunAt(7)

\* C9: schedule_pre_close_tasks never raises, and the reminder it registers
\* runs strictly after the call: at end_date - 2 days when that is in the
\* future, and otherwise 10 seconds after the call.
C9_ReminderInFuture ==
    \A j \in Jobs :
        last_schedule[j].called =>
            /\ ~last_schedule[j].raised
            /\ last_schedule[j].undisturbed =>
                  \E r \in TasksOf(j) :
                      /\ r.func = "send_closing_reminder"
                      /\ r.run_date > last_schedule[j].at
                      /\ r.run_date = ClaimedRunAt(j)

\* C9 witness: the end date was already past at the call, and the reminder is
\* registered 10 seconds after the call.
C9_Witness ==
    \E j \in Jobs :
        /\ last_schedule[j].called
        /\ last_schedule[j].undisturbed
        /\ last_schedule[j].end_date < last_schedule[j].at
        /\ \E r \in TasksOf(j) :
              r.func = "send_closing_reminder" /\ r.run_date = last_schedule[j].at + 10

\* C10: no step changes or removes an existing evaluation record, a new record
\* is only created for a candidate that had none (so a run over candidates
\* that all have one creates nothing), and no candidate ever has two.
C10_NeverOverwrites ==
    [][/\ \A e \in candidate_evaluations : e \in candidate_evaluations'
       /\ \A e \in candidate_evaluations' \ candidate_evaluations :
              ~HasEvaluation(candidate_evaluations, e.candidate_id)
       /\ \A e, f \in candidate_evaluations' :
              e.candidate_id = f.candidate_id => e = f]_vars

EvaluationRunsCompleted(job_id) ==
    Cardinality({i \in 1..Len(notifications) :
                    /\ notifications[i].type = "cv_evaluation_complete"
                    /\ notifications[i].related_job_id = job_id
                    /\ notifications[i].user_id = 1})

\* C10 witness: auto-evaluation completed twice for job 7; the evaluation
\* entered by hand is still there and each of the job's three candidates has
\* exactly one record.
C10_Witness ==
    /\ EvaluationRunsCompleted(7) = 2
    /\ ManualEvaluation \in candidate_evaluations
    /\ Cardinality(CandidatesOf(7)) = 3
    /\ \A c \in CandidatesOf(7) :
           Cardinality({e \in candidate_evaluations : e.candidate_id = c.id}) = 1

(***************************************************************************)
(* Properties of evaluate_candidate_against_persona (checked under         *)
(* SpecPersona).                                                           *)
(***************************************************************************)
\* The call did not get a JSON object out of the text-generation step.
StepFailed ==
    \/ llm_outcome.kind \in {"non_object", "non_json", "raises", "unconstructible"}
    \/ llm_outcome.fence = "prose, then fenced json"

IsZeroFallback(result) ==
    /\ {"score", "grade", "gaps"} \subseteq result.keys
    /\ result.score = 0
    /\ result.grade = "F"
    /\ result.gaps # <<>>

\* C11: evaluate_candidate_against_persona never raises to its caller,
\* whatever the text-generation step does (object, non-object JSON, non-JSON
\* text, fenced text, an exception, or a client that cannot be constructed),
\* and on a parse failure or exception the result has score 0, grade F and a
\* non-empty gaps list.
C11_NeverRaises ==
    persona_pc = "return" =>
        /\ persona_result.status = "returned"
        /\ StepFailed => IsZeroFallback(persona_result.result)

\* What does hold: once get_llm() has returned a client, the call returns,
\* with the zero fallback whenever the step failed.
FallbackOnceConstructed ==
    (persona_pc = "return" /\ llm_outcome.kind # "unconstructible") =>
        /\ persona_result.status = "returned"
        /\ StepFailed => IsZeroFallback(persona_result.result)

\* C11 witness: the service raised during invoke and the call returned the
\* zero fallback carrying the exception's text.
C11_Witness ==
    /\ persona_pc = "return"
    /\ llm_outcome.kind = "raises"
    /\ persona_result.status = "returned"
    /\ IsZeroFallback(persona_result.result)
    /\ persona_result.result.explanation = llm_outcome.message

(***************************************************************************)
(* Failure isolation in evaluate_candidate (checked under SpecEval).       *)
(***************************************************************************)
\* The evaluation of persona i failed: no JSON object came back, or the
\* object carries no score.
PersonaFailed(i) ==
    \/ llm_outcomes[i].kind \in {"non_object", "non_json", "raises", "unconstructible"}
    \/ llm_outcomes[i].fence = "prose, then fenced json"
    \/ "score" \notin llm_outcomes[i].object.keys

\* One result per persona, in supplied order; zero for the failed ones, the
\* service's own score and explanation for the others.
OneResultPerPersona ==
    /\ Len(evaluation.persona_results) = Len(personas)
    /\ \A i \in 1..Len(personas) :
          LET result == evaluation.persona_results[i]
          IN /\ result.persona_id = ClaimedPersonaId(personas[i])
             /\ PersonaFailed(i) => "score" \in result.keys /\ result.score = 0
             /\ ~PersonaFailed(i) =>
                    /\ result.score = llm_outcomes[i].object.score
                    /\ result.explanation = llm_outcomes[i].object.explanation

\* C12: evaluate_candidate returns exactly one persona result per supplied
\* persona, in the supplied order, whichever personas fail (parse error,
\* exception, or an object lacking a score): a failing persona gets a
\* zero-score result, the others keep theirs, and the call completes.
C12_FailureIsolated ==
    (eval_pc = "return" /\ personas # <<>>) =>
        /\ evaluation.status = "returned"
        /\ OneResultPerPersona

\* What does hold: whenever evaluate_candidate returns, the results are one
\* per persona and in order, and parse errors and invoke exceptions were
\* degraded to zero for their persona only.
IsolatedWhenReturned ==
    (eval_pc = "return" /\ evaluation.status = "returned") => OneResultPerPersona

\* It returns whenever every client was constructed, every parsed object
\* carries a score and every persona carries persona_id.
ReturnsUnlessScoreOrIdMissing ==
    (/\ eval_pc = "return"
     /\ personas # <<>>
     /\ \A i \in 1..Len(personas) :
           /\ llm_outcomes[i].kind # "unconstructible"
           /\ ContentKind(llm_outcomes[i]) = "object" /\ llm_outcomes[i].kind # "raises"
                  => "score" \in llm_outcomes[i].object.keys
           /\ "persona_id" \in personas[i].keys) =>
        evaluation.status = "returned"

\* C12 witness: the first persona's answer was no JSON, the second persona
\* scored 80; the call returned 0 and 80 in that order.
C12_Witness ==
    /\ eval_pc = "return"
    /\ Len(personas) = 2
    /\ llm_outcomes[1].kind = "non_json"
    /\ llm_outcomes[2].kind = "object" /\ llm_outcomes[2].fence = ""
    /\ evaluation.status = "returned"
    /\ evaluation.persona_results[1].score = 0
    /\ evaluation.persona_results[2].score = 80

\* C13: the evaluation entry point always returns a well-formed result and
\* never raises; in particular evaluate_candidate called with an empty
\* persona list returns a result rather than propagating an exception.
C13_EmptyPersonasReturn ==
    (eval_pc = "return" /\ personas = <<>>) =>
        /\ evaluation.status = "returned"
        /\ evaluation.persona_results = <<>>

\* C13 witness: evaluate_candidate was called with no personas and ended.
C13_Witness ==
    /\ eval_pc = "return"
    /\ personas = <<>>
    /\ evaluation.error = "ValueError: max() arg is an empty sequence"

\* C20: the result evaluate_candidate_against_persona returns always carries
\* the requested persona's identifier (P0 when the persona has none): on the
\* success path whatever identifier the service's text contained, and on
\* both fallback paths.
C20_PersonaIdForced ==
    (persona_pc = "return" /\ persona_result.status = "returned") =>
        /\ "persona_id" \in persona_result.result.keys
        /\ persona_result.result.persona_id = ClaimedPersonaId(persona_arg)

\* C20 witness: the service answered an object naming P9 for a persona
\* without an identifier, and the result says P0 with the service's score.
C20_Witness ==
    /\ persona_pc = "return"
    /\ "persona_id" \notin persona_arg.keys
    /\ llm_outcome.kind = "object" /\ llm_outcome.fence = ""
    /\ llm_outcome.object.persona_id = "P9"
    /\ persona_result.status = "returned"
    /\ persona_result.result.persona_id = "P0"
    /\ persona_result.result.score = llm_outcome.object.score

(***************************************************************************)
(* The task functions' guards (checked under SpecTasks).                   *)
(***************************************************************************)
TablesUnchanged ==
    UNCHANGED <<job_status, job_end_date, candidates, candidate_evaluations,
                notifications>>

\* The rows a step appended to the notifications table.
AddedNotifications ==
    [k \in 1..(Len(notifications') - Len(notifications)) |->
        notifications'[Len(notifications) + k]]

UsersWithRole(role) == {u \in DOMAIN UserRoles : UserRoles[u] = role}

\* C18: a reminder task that runs for a job that is missing or not active
\* creates no notification and changes nothing in the store; for an active
\* job (and a commit that succeeds) it appends exactly one closing_reminder
\* notification per user with the HR role, none for any other user, each
\* referencing the job.
C18_ReminderByStatus ==
    [][LET job == last_op'.job_id
       IN last_op'.name = "send_closing_reminder" =>
            /\ job_status[job] # "active" => TablesUnchanged
            /\ (job_status[job] = "active" /\ last_op'.fault = "none") =>
                  /\ Len(notifications') >= Len(notifications)
                  /\ SubSeq(notifications', 1, Len(notifications)) = notifications
                  /\ \A u \in UsersWithRole("hr") :
                        Cardinality({k \in DOMAIN AddedNotifications :
                                        AddedNotifications[k].user_id = u}) = 1
                  /\ \A k \in DOMAIN AddedNotifications :
                        /\ AddedNotifications[k].user_id \in UsersWithRole("hr")
                        /\ AddedNotifications[k].type = "closing_reminder"
                        /\ AddedNotifications[k].related_job_id = job
                  /\ UNCHANGED <<job_status, job_end_date, candidates,
                                 candidate_evaluations>>]_vars

\* C18 witness: the reminder ran for active job 7 after an earlier row was
\* stored; the last two rows are closing reminders of job 7 for users 1, 2.
C18_Witness ==
    /\ last_op = Op("send_closing_reminder", 7, "none", FALSE)
    /\ job_status[7] = "active"
    /\ Len(notifications) > 2
    /\ LET n == Len(notifications)
       IN /\ notifications[n - 1].user_id = 1 /\ notifications[n].user_id = 2
          /\ notifications[n - 1].type = "closing_reminder"
          /\ notifications[n].type = "closing_reminder"
          /\ notifications[n].related_job_id = 7

\* C19: an auto-evaluation task that runs for a job that is missing, not
\* active or without candidates creates no evaluation record and no
\* notification and leaves the store unchanged.
C19_AutoEvaluationGuards ==
    [][LET job == last_op'.job_id
       IN (/\ last_op'.name = "run_auto_evaluation"
           /\ job_status[job] # "active" \/ CandidatesOf(job) = {}) =>
              TablesUnchanged]_vars

\* C19 witness: the task ran for cancelled job 9, whose candidate has no
\* evaluation, and nothing was stored.
C19_Witness ==
    /\ last_op = Op("run_auto_evaluation", 9, "none", FALSE)
    /\ job_status[9] = "cancelled"
    /\ CandidatesOf(9) # {}
    /\ \A c \in CandidatesOf(9) : ~HasEvaluation(candidate_evaluations, c.id)
    /\ notifications = <<>>

(***************************************************************************)
(* cancel_job_schedule (checked under SpecSched).                          *)
(***************************************************************************)
\* C15: cancel_job_schedule(job) leaves no reminder and no auto-evaluation
\* task registered for the job, never raises (also when none or only one of
\* the two exists), leaves every other job's tasks as they were and touches
\* nothing else.
C15_CancelFrame ==
    [][LET job == last_op'.job_id
       IN last_op'.name = "cancel_job_schedule" =>
            /\ ~last_op'.raised
            /\ \A t \in jobstore' : t.args # job
            /\ \A j \in Jobs \ {job} :
                  {t \in jobstore' : t.args = j} = {t \in jobstore : t.args = j}
            /\ jobstore' \subseteq jobstore
            /\ UNCHANGED now
            /\ TablesUnchanged]_vars

\* C15 witness: job 7 was cancelled after its reminder had fired and before
\* any evaluation was stored, while job 9 had both tasks; job 9 still has both.
C15_Witness ==
    /\ last_op.name = "cancel_job_schedule"
    /\ last_op.job_id = 7
    /\ ~last_op.raised
    /\ Len(notifications) = Cardinality(HrUsers)
    /\ \A k \in DOMAIN notifications :
          notifications[k].type = "closing_reminder" /\ notifications[k].related_job_id = 7
    /\ candidate_evaluations = {}
    /\ TasksOf(7) = {}
    /\ Cardinality(TasksOf(9)) = 2

(***************************************************************************)
(* The store's shape (checked under SpecStore).                            *)
(***************************************************************************)
RegisteredFor(job_id, func) == {t \in jobstore : t.args = job_id /\ t.func = func}

\* C14: in every reachable state of the scheduler, after any sequence of
\* activate, schedule, cancel, task firing, shutdown and startup, each job
\* has at most one registered reminder task and at most one registered
\* auto-evaluation task.
C14_AtMostOneTaskEach ==
    \A j \in Jobs :
        /\ Cardinality(RegisteredFor(j, "send_closing_reminder")) <= 1
        /\ Cardinality(RegisteredFor(j, "run_auto_evaluation")) <= 1

\* C14 witness: job 7 was scheduled again at a later clock reading while
\* its two earlier tasks were still registered; it has one task of each kind.
C14_Witness ==
    /\ Cardinality(last_schedule[7].found) = 2
    /\ last_schedule[7].undisturbed
    /\ \E t \in last_schedule[7].found :
          t.func = "send_closing_reminder"
          /\ t.run_date # RunAt(last_schedule[7].end_date, last_schedule[7].at)
    /\ Cardinality(RegisteredFor(7, "send_closing_reminder")) = 1
    /\ Cardinality(RegisteredFor(7, "run_auto_evaluation")) = 1

(***************************************************************************)
(* Startup and the life of a job (checked under SpecLife, SpecLifeFair).   *)
(***************************************************************************)
HasFutureEndDate(j) == job_end_date[j] # NoEndDate /\ job_end_date[j].instant > now

Notified(j, type) ==
    \E k \in DOMAIN notifications :
        notifications[k].type = type /\ notifications[k].related_job_id = j

BothOccurred(j) == Notified(j, "closing_reminder") /\ Notified(j, "cv_evaluation_complete")

ActiveWithEndDate(j) == job_status[j] = "active" /\ job_end_date[j] # NoEndDate

\* C17: for every job that is activated with an end date and stays active,
\* the closing reminder and the automatic evaluation pass both eventually
\* occur, wherever process restarts fall, also when the process is down at
\* the scheduled run time and starts again only after the end date.
C17_BothEventuallyOccur ==
    \A j \in Jobs :
        ActiveWithEndDate(j) ~> (BothOccurred(j) \/ job_status[j] # "active")

\* The end date has passed and nothing is registered for the job.
Abandoned(j) == job_end_date[j].instant <= now /\ TasksOf(j) = {}

\* What does hold: an active job is served unless its end date passes while
\* none of its tasks is registered (the process went down and the tasks
\* with it).
ServedUnlessAbandoned ==
    \A j \in Jobs :
        ActiveWithEndDate(j) ~>
            (BothOccurred(j) \/ job_status[j] # "active" \/ Abandoned(j))

\* C17 witness: job 7 is active, its end date has passed while the process
\* was down, the process is up again, and neither task is registered nor
\* has any of the two notifications been written.
C17_Witness ==
    /\ last_op.name = "startup"
    /\ ActiveWithEndDate(7)
    /\ Abandoned(7)
    /\ ~Notified(7, "closing_reminder")
    /\ ~Notified(7, "cv_evaluation_complete")

(***************************************************************************)
(* The store against the job's status (checked under SpecLife).            *)
(***************************************************************************)
\* C21: a job's scheduled tasks are removed when the job leaves the active
\* state: in every reachable state, a job whose status is not active has no
\* reminder task and no auto-evaluation task registered.
C21_NoTasksUnlessActive ==
    \A j \in Jobs : job_status[j] # "active" => TasksOf(j) = {}

\* C21 witness: cancel_job has just run for a job whose two tasks were
\* registered by its activation; the process is still up.
C21_Witness ==
    /\ last_op.name = "cancel_job"
    /\ process = "up"
    /\ job_status[last_op.job_id] = "cancelled"
    /\ last_schedule[last_op.job_id].called
    /\ last_schedule[last_op.job_id].undisturbed

(***************************************************************************)
(* The task pair of a job (checked under SpecStore).                       *)
(***************************************************************************)
\* C22: per job, the scheduler is always in one of two states, no task
\* scheduled or two tasks pending; a state in which exactly one of the two
\* tasks of a job is pending is never reachable.
C22_NoneOrBothPending ==
    \A j \in Jobs : Cardinality(TasksOf(j)) \in {0, 2}

\* C22 as amended: per job, the store holds no task, both tasks, or the
\* auto-evaluation task alone once the reminder's run time has come (the
\* reminder fired and left the store); the reminder task is never
\* registered alone.
C22_NoneBothOrAutoEvalLeft ==
    \A j \in Jobs :
        \/ TasksOf(j) = {}
        \/ /\ Cardinality(TasksOf(j)) = 2
           /\ RegisteredFor(j, "send_closing_reminder") # {}
           /\ RegisteredFor(j, "run_auto_evaluation") # {}
        \/ /\ Cardinality(TasksOf(j)) = 1
           /\ \A t \in TasksOf(j) :
                 /\ t.func = "run_auto_evaluation"
                 /\ t.run_date - EvalOffset <= now

\* C22 witness: the reminder of a job has just fired and the job's
\* auto-evaluation task is the only one left for it.
C22_Witness ==
    /\ last_op.name = "send_closing_reminder"
    /\ Cardinality(TasksOf(last_op.job_id)) = 1
    /\ RegisteredFor(last_op.job_id, "run_auto_evaluation") # {}

(***************************************************************************)
(* Failing tasks (checked under SpecSched).                                *)
(***************************************************************************)
TaskFunctions == {"send_closing_reminder", "run_auto_evaluation"}

\* C24: when the body of a scheduled task fails while it runs for job A, the
\* failure is caught inside the task (nothing is raised to the scheduler),
\* the writes of the failed transaction are rolled back, the failed task is
\* not queued again, the scheduler keeps running, and the registered tasks
\* of every other job stay registered with their run times.
C24_FailureContained ==
    [][(last_op'.name \in TaskFunctions /\ last_op'.fault # "none") =>
          /\ ~last_op'.raised
          /\ process' = "up"
          /\ notifications' = notifications
          /\ last_op'.fault # "second" => candidate_evaluations' = candidate_evaluations
          /\ {t \in jobstore' : t.args = last_op'.job_id} \subseteq
                 {t \in jobstore : t.args = last_op'.job_id}
          /\ Cardinality({t \in jobstore' : t.args = last_op'.job_id}) <
                 Cardinality({t \in jobstore : t.args = last_op'.job_id})
          /\ \A j \in Jobs \ {last_op'.job_id} :
                 {t \in jobstore' : t.args = j} = {t \in jobstore : t.args = j}]_vars

\* C24 witness: a task of the active job 7 has just failed on its commit
\* while both tasks of job 9 are registered.
C24_Witness ==
    /\ last_op.name \in TaskFunctions
    /\ last_op.job_id = 7
    /\ last_op.fault # "none"
    /\ Cardinality(TasksOf(9)) = 2
    /\ process = "up"

(***************************************************************************)
(* Atomicity of one auto-evaluation run (checked under SpecTasks).         *)
(***************************************************************************)
\* C25: one firing of the auto-evaluation task is atomic with respect to the
\* store: either all of its writes (the new evaluation records and the
\* evaluation-complete notifications) are committed or, when an error occurs
\* at any point of the task, none of them is; evaluation records of a firing
\* are never persisted without its notifications.
C25_AutoEvaluationAtomic ==
    [][last_op'.name = "run_auto_evaluation" =>
          /\ last_op'.fault # "none" => TablesUnchanged
          /\ candidate_evaluations' # candidate_evaluations =>
                 Len(notifications') = Len(notifications) + Cardinality(HrUsers)]_vars

\* C25 witness: a run of the auto-evaluation task for an active job with
\* candidates has just failed on its second commit, after the evaluation
\* records of the run were committed.
C25_Witness ==
    /\ last_op.name = "run_auto_evaluation"
    /\ last_op.fault = "second"
    /\ job_status[last_op.job_id] = "active"
    /\ \E e \in candidate_evaluations :
          e.is_automated /\ e.job_id = last_op.job_id
    /\ ~Notified(last_op.job_id, "cv_evaluation_complete")

(***************************************************************************)
(* Duplicate firing (checked under SpecLife).                              *)
(***************************************************************************)
\* The notifications of one type that one user received for one job.
Received(u, j, type) ==
    {k \in DOMAIN notifications :
        /\ notifications[k].user_id = u
        /\ notifications[k].related_job_id = j
        /\ notifications[k].type = type}

\* C29: no duplicate firing: across any sequence of activation, task firing
\* and process restart with startup reconciliation, each HR user receives at
\* most one closing-reminder notification and at most one
\* evaluation-complete notification per job.
C29_NoDuplicateFiring ==
    \A u \in HrUsers : \A j \in Jobs :
        /\ Cardinality(Received(u, j, "closing_reminder")) <= 1
        /\ Cardinality(Received(u, j, "cv_evaluation_complete")) <= 1

\* C29 witness: after both tasks of an active job fired, the process was
\* restarted before the job's end date and startup registered both tasks
\* again.
C29_Witness ==
    /\ last_op.name = "startup"
    /\ \E j \in Jobs :
          /\ job_status[j] = "active"
          /\ BothOccurred(j)
          /\ HasFutureEndDate(j)
          /\ Cardinality(TasksOf(j)) = 2

(***************************************************************************)
(* The synthetic score and the summary notification (checked under         *)
(* SpecAuto).                                                              *)
(***************************************************************************)
\* The candidate row an evaluation record belongs to.
CandidateOf(e) == CHOOSE c \in candidates : c.id = e.candidate_id

\* The name the score is derived from: 'Unknown' when the name is absent.
ScoredName(c) == IF c.name = "" THEN "Unknown" ELSE c.name

AutomatedRows == {e \in candidate_evaluations : e.is_automated}

\* C26: for every candidate, the synthetic score computed by
\* run_auto_evaluation is 45 + (h mod 51) for the hash h of the candidate's
\* name ('Unknown' when absent), so it lies in 45..95; two candidates with
\* the same name get the same score and grade, in one run and across runs.
C26_SyntheticScore ==
    /\ \A e \in AutomatedRows :
          /\ e.overall_score = 45 + Md5Mod51(ScoredName(CandidateOf(e)))
          /\ e.overall_score \in 45..95
          /\ e.grade = ClaimedGrade(e.overall_score)
    /\ \A e, f \in AutomatedRows :
          ScoredName(CandidateOf(e)) = ScoredName(CandidateOf(f)) =>
              e.overall_score = f.overall_score /\ e.grade = f.grade

\* C26 witness: automated records exist for two candidates of one job and
\* one of another job who share a name, for the candidate without a name,
\* and for the candidates with the lowest and the highest score.
C26_Witness ==
    /\ \E e, f, g \in AutomatedRows :
          /\ e # f
          /\ CandidateOf(e).name = "Zoe" /\ CandidateOf(f).name = "Zoe"
          /\ e.job_id = f.job_id
          /\ CandidateOf(g).name = "Zoe" /\ g.job_id # e.job_id
    /\ \E e \in AutomatedRows : CandidateOf(e).name = ""
    /\ \E e \in AutomatedRows : e.overall_score = 45
    /\ \E e \in AutomatedRows : e.overall_score = 95

\* The candidates of a job with the highest synthetic score.
BestScored(job_id) ==
    {c \in CandidatesOf(job_id) :
        \A d \in CandidatesOf(job_id) :
            45 + Md5Mod51(ScoredName(d)) <= 45 + Md5Mod51(ScoredName(c))}

\* The first candidate of a set in fetch order (the order of the row ids).
FirstFetched(rows) == CHOOSE c \in rows : \A d \in rows : c.id <= d.id

\* The notifications appended by the step.
Appended == SubSeq(notifications', Len(notifications) + 1, Len(notifications'))

\* C27: a successful auto-evaluation run for an active job with at least one
\* candidate creates exactly one cv_evaluation_complete notification per HR
\* user; the candidate named in it has the highest synthetic score among the
\* job's candidates (the first such candidate in fetch order on ties), and
\* the count it reports is the number of candidates of the job, those that
\* already had an evaluation record included.
C27_SummaryNotification ==
    [][(/\ last_op'.name = "run_auto_evaluation"
        /\ last_op'.fault = "none"
        /\ job_status[last_op'.job_id] = "active"
        /\ CandidatesOf(last_op'.job_id) # {}) =>
          /\ Len(notifications') = Len(notifications) + Cardinality(HrUsers)
          /\ SubSeq(notifications', 1, Len(notifications)) = notifications
          /\ \A u \in HrUsers :
                Cardinality({k \in DOMAIN Appended : Appended[k].user_id = u}) = 1
          /\ \A k \in DOMAIN Appended :
                /\ Appended[k].user_id \in HrUsers
                /\ Appended[k].type = "cv_evaluation_complete"
                /\ Appended[k].related_job_id = last_op'.job_id
                /\ Appended[k].message[2] = Cardinality(CandidatesOf(last_op'.job_id))
                /\ Appended[k].message[3] =
                       ScoredName(FirstFetched(BestScored(last_op'.job_id)))]_vars

\* C27 witness: a run for job 7 has just succeeded; two candidates with
\* different names tie for the highest score, one candidate had an
\* evaluation entered by hand before, and the notification counts all of the
\* job's candidates.
C27_Witness ==
    /\ last_op = Op("run_auto_evaluation", 7, "none", FALSE)
    /\ \E c, d \in BestScored(7) : ScoredName(c) # ScoredName(d)
    /\ \E e \in candidate_evaluations : ~e.is_automated /\ e.job_id = 7
    /\ Len(notifications) >= 2
    /\ notifications[Len(notifications)].related_job_id = 7
    /\ notifications[Len(notifications)].type = "cv_evaluation_complete"
    /\ notifications[Len(notifications)].message[2] = Cardinality(CandidatesOf(7))
    /\ Cardinality(CandidatesOf(7)) >= 3

(***************************************************************************)
(* Tasks running on worker threads (checked under SpecPool).               *)
(***************************************************************************)
InFlight(func, j) ==
    \E w \in Workers : running[w].func = func /\ running[w].job_id = j

\* Whenever both tasks of a job are registered, the auto-evaluation's run
\* time is 5 seconds after the reminder's.
EvaluationFiveSecondsAfterReminder ==
    \A j \in Jobs :
        \A r \in RegisteredFor(j, "send_closing_reminder") :
            \A a \in RegisteredFor(j, "run_auto_evaluation") :
                a.run_date = r.run_date + 5

\* A reminder run of job j has not committed its notifications yet while an
\* auto-evaluation run of the same job reads and writes.
Interleaved(j) ==
    InFlight("send_closing_reminder", j) /\ InFlight("run_auto_evaluation", j)

\* C23: whenever both tasks of a job are registered, the auto-evaluation
\* task's run time is exactly 5 seconds after the reminder task's, so the
\* reminder fires first and its notification writes are never interleaved
\* with the auto-evaluation's evaluation writes.
C23_ReminderBeforeEvaluation ==
    /\ EvaluationFiveSecondsAfterReminder
    /\ \A j \in Jobs : ~Interleaved(j)

\* C23 witness: the reminder of a job commits its notifications after the
\* auto-evaluation of the same job, started 5 seconds later, has committed
\* its evaluation records and while that run is still in flight.
C23_Witness ==
    /\ last_op.name = "send_closing_reminder: commit"
    /\ last_op.fault = "none"
    /\ Notified(last_op.job_id, "closing_reminder")
    /\ \E w \in Workers :
          /\ running[w].func = "run_auto_evaluation"
          /\ running[w].job_id = last_op.job_id
          /\ running[w].pc = "notify"
    /\ \E e \in candidate_evaluations : e.is_automated /\ e.job_id = last_op.job_id

\* The notifications of one type written for a job.
NotificationsFor(rows, j, type) ==
    {k \in DOMAIN rows : rows[k].related_job_id = j /\ rows[k].type = type}

\* C28: once the cancellation of a job has been committed, no scheduled
\* task creates a closing-reminder notification, an evaluation record or an
\* evaluation-complete notification for that job, however the cancel request
\* interleaves with a reminder or auto-evaluation task that is running.
C28_NoWritesAfterCancel ==
    [][\A j \in Jobs :
          job_status[j] = "cancelled" =>
              /\ NotificationsFor(notifications', j, "closing_reminder") =
                     NotificationsFor(notifications, j, "closing_reminder")
              /\ NotificationsFor(notifications', j, "cv_evaluation_complete") =
                     NotificationsFor(notifications, j, "cv_evaluation_complete")
              /\ {e \in candidate_evaluations' : e.job_id = j} =
                     {e \in candidate_evaluations : e.job_id = j}]_vars

\* C28 witness: the cancellation of a job has just been committed while a
\* task of that job, which read the job as active, has not yet written.
C28_Witness ==
    /\ last_op.name = "cancel_job"
    /\ job_status[last_op.job_id] = "cancelled"
    /\ \E w \in Workers :
          /\ running[w].job_id = last_op.job_id
          /\ running[w].pc \in {"notify", "loop", "commit"}

(***************************************************************************)
(* Two instances firing the auto-evaluation of one job (checked under      *)
(* SpecInstances).                                                         *)
(***************************************************************************)
RecordsOf(evals, cand_id) == {e \in evals : e.candidate_id = cand_id}

\* A worker that is about to commit a record for a candidate who has one.
Loses(w) ==
    /\ running[w].func = "run_auto_evaluation"
    /\ running[w].pc = "commit"
    /\ \E c \in running[w].pending : RecordsOf(candidate_evaluations, c.id) # {}

\* C30: in every reachable state there is at most one evaluation record per
\* candidate, also when two instances fire the auto-evaluation of one job
\* and both pass the check-existence step before either inserts: the unique
\* candidate identifier rejects the second insert, and the losing firing
\* rolls back its whole batch and sends no notification.
C30_OneRecordPerCandidate ==
    /\ [](\A c \in candidates : Cardinality(RecordsOf(candidate_evaluations, c.id)) <= 1)
    /\ [][\A w \in Workers :
             (Loses(w) /\ running'[w] # running[w]) =>
                 /\ candidate_evaluations' = candidate_evaluations
                 /\ notifications' = notifications
                 /\ running'[w] = NoRun]_vars

\* C30 witness: both instances passed the existence check for the same
\* candidates before either inserted; one committed its records and the
\* other's commit has just been rejected by the unique constraint.
C30_Witness ==
    /\ last_op.name = "run_auto_evaluation: commit"
    /\ last_op.fault = "unique"
    /\ \E w \in Workers :
          /\ running[w].func = "run_auto_evaluation"
          /\ running[w].job_id = last_op.job_id
          /\ running[w].pc = "notify"
    /\ \E v \in Workers : running[v] = NoRun
    /\ Cardinality({e \in candidate_evaluations :
                       e.is_automated /\ e.job_id = last_op.job_id}) >= 2
====
